---- MODULE Spec2Model ----
(***************************************************************************)
(* Pawparazzi backend: the social-graph mutation handlers (follow/unfollow *)
(* through the follow_user_with_counts / unfollow_user_with_counts         *)
(* routines, like/unlike through CatLikeService) running as concurrent     *)
(* requests against one shared store, and the keyset-paginated listings.   *)
(***************************************************************************)
EXTENDS Integers, Sequences, FiniteSets, TLC

\* ------------------------------------------------------------------------
\* Universe
\* ------------------------------------------------------------------------

\* rows of public.users present in the store
Users == {"alice", "bob"}

\* usernames a request may name as its target; "zed" is not registered
Usernames == Users \cup {"zed"}

\* session tokens a request may carry; "t0" is held by nobody
Tokens == {"ta", "tb", "t0"}

\* requests that may be in flight at the same time
Procs == {"r1", "r2"}

\* cat ids a like request may name: 1..MaxCats, of which only cat 1 exists
\* while the mutation engine runs
MaxCats == 2
CatIds == 1..MaxCats

\* row ids of a listed dataset (the listings sort by id): 1..MaxRows
MaxRows == 3
RowIds == 1..MaxRows

\* created_at values
MaxTime == 2
Times == 1..MaxTime

\* followed_at values are counted in ticks finer than a millisecond:
\* ticks 1..TicksPerMs are the first millisecond, and so on
TicksPerMs == 2

\* largest limit parameter a listing request passes
MaxLimit == 2

\* calls recorded per burst of overlapping requests before the record
\* overflows
MaxBurst == 2

\* collection ids a request may name; only collection 1 exists at the start
CollIds == {1, 2}

\* cat ids a membership request may name: two cats that exist while the
\* collection engine runs, and 0, which no cat has
MemberCatIds == {0, 1, 2}

\* names an update may give a collection
Names == {"n9"}

\* session tokens generated (by logins and registrations) in one run
MaxTokens == 2

\* comments created in one run
MaxComments == 2

\* rows of public.cats the cat engine fills the table up to
MaxPosts == 3

\* rows of public.collections the naming engine fills the table up to
MaxColls == 3

\* storage failures a retried call meets before the store answers again
MaxRetries == 2

\* names a create or an update of the naming engine may carry, as typed
RawNames == {"n1", " n1", "n9 "}

\* email addresses and password hashes a login or a registration may carry;
\* "c@x" and "carol" are not registered at the start
Emails == {"a@x", "b@x", "c@x"}
Hashes == {"ha", "hb"}
NewUsernames == {"carol", "alice"}

Null == "null"

VARIABLES
    session_token,    \* users.session_token, by username
    follows,          \* public.follows: set of <<follower, followee>>
    follower_count,   \* users.follower_count, by username
    following_count,  \* users.following_count, by username
    likesTbl,         \* public.likes: set of <<cat_id, username>>
    cats,             \* public.cats: cat id -> [created_at, username, likes]
    req,              \* per request slot: the handler's position and locals
    burst,            \* history: store at the start of the current burst of
                      \* overlapping requests, and the calls started in it
    walk,             \* a client walking a listing page by page
    accounts,         \* users.email and users.password_hash, by username
    collections,      \* public.collections: id -> [owner_username,
                      \* cat_count, created_at, name]
    collection_cats,  \* public.collection_cats: set of
                      \* [collection_id, cat_id, added_at]
    comments,         \* public.comments: comment_id -> [cat_id, username]
    post_count,       \* users.post_count, by username
    followed_at,      \* follows.followed_at of the edges of a listed
                      \* dataset, by edge (the mutation engines never read
                      \* it and leave it empty)
    hist,             \* history: the session tokens generated so far, with
                      \* the identity each was issued to
    cursorIo,         \* a page cursor between server and client: the row
                      \* the server encoded or the string the client sent,
                      \* and what the handler made of it
    atomicRun,        \* the likes table and the likes column as the calls
                      \* made so far leave them when the edge and the
                      \* counter are written by like_cat_with_count and
                      \* unlike_cat_with_count, with the last answers
    avatarSt          \* users.r2_avatar by username (0: null), the keys of
                      \* the avatar objects in the bucket, the keys each
                      \* changeAvatar call holds, the keys generated so far

\* the tables the handlers of the later sections work on
extraVars ==
    <<accounts, collections, collection_cats, comments, post_count,
      followed_at>>

\* the state of the sections on cursor strings, on the atomic like
\* routines and on avatars
auxVars == <<cursorIo, atomicRun, avatarSt>>

vars == <<session_token, follows, follower_count, following_count,
          likesTbl, cats, req, burst, walk, extraVars, hist, auxVars>>

storeVars == <<session_token, follows, follower_count, following_count,
               likesTbl, cats, extraVars>>

Max(a, b) == IF a >= b THEN a ELSE b

\* ------------------------------------------------------------------------
\* The store as one value, for the routines that are functions of it
\* ------------------------------------------------------------------------

Store ==
    [follows |-> follows, follower_count |-> follower_count,
     following_count |-> following_count, likesTbl |-> likesTbl,
     cats |-> cats]

\* update users set col = coalesce(col, 0) + n where username = u
\* (no such row: nothing is updated)
AddUserCount(col, u, n) ==
    IF u \in DOMAIN col THEN [col EXCEPT ![u] = @ + n] ELSE col

\* update users set col = greatest(coalesce(col, 0) - n, 0) where username = u
SubUserCount(col, u, n) ==
    IF u \in DOMAIN col THEN [col EXCEPT ![u] = Max(@ - n, 0)] ELSE col

\* follow_user_with_counts with a blind +1 in place of count(inserted)
follow_user_with_counts_blind(st, follower, followee) ==
    [st EXCEPT
       !.follows = @ \cup {<<follower, followee>>},
       !.following_count = AddUserCount(@, follower, 1),
       !.follower_count = AddUserCount(@, followee, 1)]

\* follow_user_with_counts: insert .. on conflict do nothing returning 1,
\* then both counters move by count(inserted)
follow_user_with_counts(st, follower, followee) ==
    LET inserted == IF <<follower, followee>> \in st.follows THEN 0 ELSE 1
    IN [st EXCEPT
          !.follows = @ \cup {<<follower, followee>>},
          !.following_count = AddUserCount(@, follower, inserted),
          !.follower_count = AddUserCount(@, followee, inserted)]

\* unfollow_user_with_counts with a blind -1 in place of count(deleted)
unfollow_user_with_counts_blind(st, follower, followee) ==
    [st EXCEPT
       !.follows = @ \ {<<follower, followee>>},
       !.following_count = SubUserCount(@, follower, 1),
       !.follower_count = SubUserCount(@, followee, 1)]

\* unfollow_user_with_counts: delete .. returning 1, then both counters
\* move down by count(deleted), floored at 0 by greatest(.., 0)
unfollow_user_with_counts(st, follower, followee) ==
    LET deleted == IF <<follower, followee>> \in st.follows THEN 1 ELSE 0
    IN [st EXCEPT
          !.follows = @ \ {<<follower, followee>>},
          !.following_count = SubUserCount(@, follower, deleted),
          !.follower_count = SubUserCount(@, followee, deleted)]

\* likes.upsert({cat_id, username}, onConflict: "cat_id,username")
UpsertLike(tbl, c, u) == tbl \cup {<<c, u>>}

\* likes.delete().eq(cat_id).eq(username)
DeleteLike(tbl, c, u) == tbl \ {<<c, u>>}

\* likes.select("*", {count: "exact", head: true}).eq("cat_id", catId)
CountLikes(tbl, c) == Cardinality({r \in tbl : r[1] = c})

\* the likes column moved by one in place of being set to the count
PersistLikes_incr(catTbl, c, n) ==
    IF c \in DOMAIN catTbl THEN [catTbl EXCEPT ![c].likes = @ + 1] ELSE catTbl

\* cats.update({likes: totalLikes}).eq("id", catId)
PersistLikes(catTbl, c, n) ==
    IF c \in DOMAIN catTbl THEN [catTbl EXCEPT ![c].likes = n] ELSE catTbl

\* the lookup answering for the tokens given at registration whatever the
\* column holds now
UserByToken_neverRotated(tok, token) ==
    IF token = "ta" THEN "alice" ELSE IF token = "tb" THEN "bob" ELSE Null

\* users.select(..).eq("session_token", token).maybeSingle()
UserByToken(tok, token) ==
    IF \E u \in DOMAIN tok : tok[u] = token
    THEN CHOOSE u \in DOMAIN tok : tok[u] = token
    ELSE Null

\* ------------------------------------------------------------------------
\* Requests in flight
\* ------------------------------------------------------------------------

Idle ==
    [op |-> "idle", token |-> Null, target |-> Null, pc |-> "idle",
     user |-> Null, cnt |-> 0, status |-> 0, eff |-> "none",
     email |-> Null, passwd_hash |-> Null, cat_id |-> 0, name |-> Null,
     limit |-> 0, cursor |-> 0, rows |-> <<>>, next_cursor |-> 0,
     observe |-> FALSE, thrown |-> [kind |-> "none", message |-> "",
                                     status |-> 0],
     error |-> "", result |-> Null, retries |-> 0]

\* the two listings of FollowService
ListOps == {"listFollowers", "listFollowing"}

\* nothing was thrown
NoError == [kind |-> "none", message |-> "", status |-> 0]

\* new HttpError(message, status), AuthError (401) included
HttpError(message, status) ==
    [kind |-> "HttpError", message |-> message, status |-> status]

\* messages of errors that come from the store, the object store or the
\* runtime, not from this program
StorageMessages ==
    {"duplicate key value violates unique constraint", "fetch failed"}

\* the HttpError follow, unfollow, like and unlike throw at a place of the
\* handler for a status: the literal message of the throw statement
ThrownAt(op, pc, status) ==
    HttpError(
      CASE pc = "auth" /\ status = 401 -> "Invalid session token"
        [] pc = "auth" /\ status = 500 ->
             "Failed to load user by session token"
        [] pc = "auth" /\ status = 400 /\ op = "follow" ->
             "Users cannot follow themselves"
        [] pc = "auth" /\ status = 400 /\ op = "unfollow" ->
             "Users cannot unfollow themselves"
        [] pc = "lookup" /\ status = 500 -> "Failed to lookup target user"
        [] pc = "lookup" /\ status = 404 -> "Target user not found"
        [] pc = "rpc" /\ op = "follow" -> "Failed to follow user"
        [] pc = "rpc" /\ op = "unfollow" -> "Failed to unfollow user"
        [] pc = "exists" /\ status = 500 -> "Failed to lookup cat"
        [] pc = "exists" /\ status = 404 -> "Cat not found"
        [] pc = "edge" /\ op = "like" -> "Failed to like cat"
        [] pc = "edge" /\ op = "unlike" -> "Failed to remove like"
        [] pc = "count" -> "Failed to count likes"
        [] pc = "persist" -> "Failed to persist like count"
        [] OTHER -> "Unauthorized",
      status)

\* handleRouteError passing on the message of whatever was thrown
handleRouteError_anyMessage(err) ==
    [error |-> err.message,
     status |-> IF err.kind = "HttpError" THEN err.status ELSE 500]

\* handleRouteError: fail(err.message, err.status) for an HttpError,
\* fail("Internal server error", 500) for anything else
handleRouteError(err) ==
    IF err.kind = "HttpError"
    THEN [error |-> err.message, status |-> err.status]
    ELSE [error |-> "Internal server error", status |-> 500]

\* the response value of a mutation whatever the action: "followed" and
\* liked true
ResponseState_sameForBoth(op) ==
    CASE op \in {"follow", "unfollow"} -> "followed"
      [] op \in {"like", "unlike"} -> "liked"
      [] OTHER -> Null

\* the edge state a 200 of a mutation tells: ok({status: "followed"}) or
\* ok({status: "unfollowed"}) of handleFollowUserRequest, and
\* liked = (action === "like") of handleCatLikeMutation
ResponseState(op) ==
    CASE op = "follow" -> "followed"
      [] op = "unfollow" -> "unfollowed"
      [] op = "like" -> "liked"
      [] op = "unlike" -> "not liked"
      [] OTHER -> Null

\* a slot is free before its first request and after a response was sent
Free(p) == req[p].pc \in {"idle", "done"}

Quiescent == \A p \in Procs : Free(p)

\* the response leaves the handler: ok(..) is 200, fail(message, status).
\* The slot keeps what the response and the claims refer to: the operation,
\* the status, the likes value of a CatLikePayload and the effect on the
\* store; of a listing of follow edges also who asked for whose edges, and
\* the edges and next_cursor of a 200; of a request whose failures are
\* observed also what was thrown, the error message of the response and
\* what the caller needs to send the request again.
Respond(r, status) ==
    LET session == \/ r.op \in {"profile", "login", "register"} /\ status = 200
                   \/ r.op \in ListOps
                   \/ r.observe
        thrown == IF ~r.observe \/ status = 200 THEN NoError
                  ELSE IF r.thrown # NoError THEN r.thrown
                  ELSE ThrownAt(r.op, r.pc, status)
    IN [Idle EXCEPT !.observe = r.observe, !.thrown = thrown,
                    !.error = IF thrown = NoError THEN ""
                              ELSE handleRouteError(thrown).error,
                    !.result = IF status = 200 THEN ResponseState(r.op)
                                                ELSE Null,
                    !.op = r.op, !.pc = "done", !.status = status,
                    !.eff = r.eff,
                    !.target = IF \/ r.op \in {"deleteCollection",
                                               "createComment",
                                               "deleteComment"} \cup ListOps
                                  \/ r.observe
                               THEN r.target ELSE Null,
                    !.retries = r.retries,
                    !.limit = IF r.op \in ListOps THEN r.limit ELSE 0,
                    !.cursor = IF r.op \in ListOps THEN r.cursor ELSE 0,
                    !.rows = IF status = 200 THEN r.rows ELSE <<>>,
                    !.next_cursor = IF status = 200 THEN r.next_cursor ELSE 0,
                    !.cat_id = IF r.op = "createCat" THEN r.cat_id ELSE 0,
                    !.cnt = IF status = 200 THEN r.cnt ELSE 0,
                    !.token = IF session THEN r.token ELSE Null,
                    !.user = IF session THEN r.user ELSE Null]

\* history of the current burst of overlapping requests
Overflow == [snap |-> Null, calls |-> <<>>, over |-> TRUE]

RecordCall(op, token, target) ==
    LET d == [op |-> op, token |-> token, target |-> target]
    IN IF Quiescent
       THEN [snap |-> Store, calls |-> <<d>>, over |-> FALSE]
       ELSE IF burst.over \/ Len(burst.calls) >= MaxBurst
            THEN Overflow
            ELSE [burst EXCEPT !.calls = Append(@, d)]

\* a burst is followed only while every response in it is 200
NoteResponse(r) ==
    IF r.pc = "done" /\ r.status # 200 /\ burst.calls # <<>>
    THEN Overflow
    ELSE burst

\* handleFollowUserRequest up to the first store access: the body fields
\* are present and well formed, action is "follow" or "unfollow"
StartFollow(p, token, target, action, track, solo) ==
    /\ Free(p)
    /\ solo => Quiescent
    /\ req' = [req EXCEPT ![p] =
                 [Idle EXCEPT !.op = action, !.token = token,
                              !.target = target, !.pc = "auth"]]
    /\ burst' = IF track THEN RecordCall(action, token, target) ELSE burst
    /\ UNCHANGED <<storeVars, walk, hist, auxVars>>

\* handleCatLikeMutation up to the first store access
StartLike(p, token, catId, action, track, solo) ==
    /\ Free(p)
    /\ solo => Quiescent
    /\ req' = [req EXCEPT ![p] =
                 [Idle EXCEPT !.op = action, !.token = token,
                              !.target = catId, !.pc = "auth"]]
    /\ burst' = IF track THEN RecordCall(action, token, catId) ELSE burst
    /\ UNCHANGED <<storeVars, walk, hist, auxVars>>

\* a store call comes back with an error: the handler throws HttpError 500
\* and the statement is not applied
StoreError(p, at) ==
    /\ req[p].pc \in at
    /\ req' = [req EXCEPT ![p] = Respond(@, 500)]
    /\ burst' = NoteResponse(req'[p])
    /\ UNCHANGED <<storeVars, walk, hist, auxVars>>

\* the first store access of each service method after the session lookup
AfterAuth(op) ==
    CASE op = "follow" -> "lookup"
      [] op = "unfollow" -> "rpc"
      [] op \in {"like", "unlike"} -> "exists"
      [] op \in {"updateCollection", "addCat", "removeCat"} -> "owner"
      [] op = "deleteCollection" -> "cdelete"
      [] op = "createComment" -> "mcat"
      [] op = "createCat" -> "r2put"
      [] op = "createCollection" -> "collrpc"
      [] op \in ListOps -> "fquery"
      [] OTHER -> "mload"

\* Auth without the "Users cannot (un)follow themselves" check
Auth_noSelfCheck(p) ==
    /\ req[p].pc = "auth"
    /\ LET r == req[p]
           u == UserByToken(session_token, r.token)
       IN req' = [req EXCEPT ![p] =
            IF u = Null THEN Respond(r, 401)
            ELSE IF r.op = "profile"
                 THEN Respond([r EXCEPT !.user = u], 200)
            ELSE [r EXCEPT !.user = u, !.pc = AfterAuth(r.op)]]
    /\ burst' = NoteResponse(req'[p])
    /\ UNCHANGED <<storeVars, walk, hist, auxVars>>

\* Auth without the "Users may only list their own followers" check
Auth_noOwnListCheck(p) ==
    /\ req[p].pc = "auth"
    /\ LET r == req[p]
           u == UserByToken(session_token, r.token)
       IN req' = [req EXCEPT ![p] =
            IF u = Null THEN Respond(r, 401)
            ELSE IF r.op \in {"follow", "unfollow"} /\ u = r.target
                 THEN Respond([r EXCEPT !.user = u], 400)
            ELSE IF r.op = "profile"
                 THEN Respond([r EXCEPT !.user = u], 200)
            ELSE [r EXCEPT !.user = u, !.pc = AfterAuth(r.op)]]
    /\ burst' = NoteResponse(req'[p])
    /\ UNCHANGED <<storeVars, walk, hist, auxVars>>

\* UserService.getUserBySessionToken, then the checks that follow it
\* without another store access
Auth(p) ==
    /\ req[p].pc = "auth"
    /\ LET r == req[p]
           u == UserByToken(session_token, r.token)
       IN req' = [req EXCEPT ![p] =
            IF u = Null THEN Respond(r, 401)
            ELSE IF r.op \in {"follow", "unfollow"} /\ u = r.target
                 THEN Respond([r EXCEPT !.user = u], 400)
            ELSE IF r.op \in ListOps /\ r.target # Null /\ r.target # u
                 THEN Respond([r EXCEPT !.user = u], 403)
            ELSE IF r.op = "profile"
                 THEN Respond([r EXCEPT !.user = u], 200)
            ELSE [r EXCEPT !.user = u, !.pc = AfterAuth(r.op)]]
    /\ burst' = NoteResponse(req'[p])
    /\ UNCHANGED <<storeVars, walk, hist, auxVars>>

\* FollowService.followUser without the lookup of the target user
LookupTarget_noCheck(p) ==
    /\ req[p].pc = "lookup"
    /\ req' = [req EXCEPT ![p].pc = "rpc"]
    /\ burst' = NoteResponse(req'[p])
    /\ UNCHANGED <<storeVars, walk, hist, auxVars>>

\* FollowService.followUser: users.select("username").eq(target)
LookupTarget(p) ==
    /\ req[p].pc = "lookup"
    /\ req' = [req EXCEPT ![p] =
                 IF @.target \in DOMAIN session_token
                 THEN [@ EXCEPT !.pc = "rpc"]
                 ELSE Respond(@, 404)]
    /\ burst' = NoteResponse(req'[p])
    /\ UNCHANGED <<storeVars, walk, hist, auxVars>>

\* UserMetricsService.executeFollowMutation: one rpc, one statement.
\* The error branch covers a response lost after the statement committed.
FollowRpc(p) ==
    /\ req[p].pc = "rpc"
    /\ LET r == req[p]
           st == IF r.op = "follow"
                 THEN follow_user_with_counts(Store, r.user, r.target)
                 ELSE unfollow_user_with_counts(Store, r.user, r.target)
           eff == IF st.follows = follows THEN "none" ELSE "both"
       IN /\ follows' = st.follows
          /\ follower_count' = st.follower_count
          /\ following_count' = st.following_count
          /\ \E status \in {200, 500} :
                req' = [req EXCEPT ![p] =
                          Respond([r EXCEPT !.eff = eff], status)]
    /\ burst' = NoteResponse(req'[p])
    /\ UNCHANGED <<session_token, likesTbl, cats, walk, extraVars, hist, auxVars>>

\* CatLikeService.ensureCatExists
EnsureCatExists(p) ==
    /\ req[p].pc = "exists"
    /\ req' = [req EXCEPT ![p] =
                 IF @.target \in DOMAIN cats
                 THEN [@ EXCEPT !.pc = "edge"]
                 ELSE Respond(@, 404)]
    /\ burst' = NoteResponse(req'[p])
    /\ UNCHANGED <<storeVars, walk, hist, auxVars>>

\* CatLikeService.likeCat / unlikeCat: the upsert or the delete
WriteLikeEdge(p) ==
    /\ req[p].pc = "edge"
    /\ LET r == req[p]
           tbl == IF r.op = "like"
                  THEN UpsertLike(likesTbl, r.target, r.user)
                  ELSE DeleteLike(likesTbl, r.target, r.user)
       IN /\ likesTbl' = tbl
          /\ req' = [req EXCEPT ![p] =
                       [r EXCEPT !.pc = "count",
                                 !.eff = IF tbl = likesTbl THEN "none"
                                                           ELSE "edge"]]
    /\ UNCHANGED <<session_token, follows, follower_count, following_count,
                   cats, burst, walk, extraVars, hist, auxVars>>

\* CatLikeService.refreshCatLikeCount: the count query
RefreshCount(p) ==
    /\ req[p].pc = "count"
    /\ req' = [req EXCEPT ![p] =
                 [@ EXCEPT !.pc = "persist",
                           !.cnt = CountLikes(likesTbl, req[p].target)]]
    /\ UNCHANGED <<storeVars, burst, walk, hist, auxVars>>

\* CatLikeService.refreshCatLikeCount: cats.update({likes: totalLikes})
RefreshPersist(p) ==
    /\ req[p].pc = "persist"
    /\ cats' = PersistLikes(cats, req[p].target, req[p].cnt)
    /\ req' = [req EXCEPT ![p] =
                 Respond([@ EXCEPT !.eff = IF @ = "edge" THEN "both" ELSE @],
                         200)]
    /\ UNCHANGED <<session_token, follows, follower_count, following_count,
                   likesTbl, burst, walk, extraVars, hist, auxVars>>

\* ------------------------------------------------------------------------
\* The mutation engine
\* ------------------------------------------------------------------------

\* the number of cats rows each user owns
PostCounts(catTbl) ==
    [u \in Users |->
       Cardinality({c \in DOMAIN catTbl : catTbl[c].username = u})]

InitStore ==
    /\ followed_at = <<>>
    /\ session_token = [u \in Users |-> IF u = "alice" THEN "ta" ELSE "tb"]
    /\ follows = {}
    /\ follower_count = [u \in Users |-> 0]
    /\ following_count = [u \in Users |-> 0]
    /\ likesTbl = {}
    /\ accounts = [u \in Users |->
                     [email |-> IF u = "alice" THEN "a@x" ELSE "b@x",
                      password_hash |-> IF u = "alice" THEN "ha" ELSE "hb"]]

\* no cursor has been encoded or sent
NoCursorIo ==
    [stage |-> "none", kind |-> Null, case |-> Null,
     row |-> [k1 |-> <<>>, k2 |-> <<>>], raw |-> <<>>,
     decoded |-> [present |-> FALSE, k1 |-> <<>>, k2 |-> <<>>,
                  error |-> Null],
     status |-> 0, error |-> "", queried |-> FALSE, clause |-> FALSE]

\* no call has been run through the atomic like routines
NoAtomicRun ==
    [likesTbl |-> {}, likes |-> <<>>, action |-> Null, status |-> 0,
     returned |-> 0, delta |-> 0, servedStatus |-> 0, servedLikes |-> 0]

\* no user has an avatar, the bucket holds no avatar object
NoAvatars ==
    [r2_avatar |-> [u \in Users |-> 0], bucket |-> {},
     local |-> [p \in Procs |-> [old |-> 0, newKey |-> 0]], nKeys |-> 0]

InitAux ==
    /\ cursorIo = NoCursorIo
    /\ atomicRun = NoAtomicRun
    /\ avatarSt = NoAvatars

\* nothing generated yet beyond the tokens the registered users hold
InitHist ==
    hist = [issued |-> {<<"ta", "alice">>, <<"tb", "bob">>},
            latest |-> [u \in Users |-> IF u = "alice" THEN "ta" ELSE "tb"],
            returned |-> [u \in Users |-> IF u = "alice" THEN "ta" ELSE "tb"],
            nTokens |-> 0, nComments |-> 0]

NoWalk ==
    [listing |-> Null, limit |-> 0, filter |-> Null, coll |-> 0,
     pages |-> <<>>,
     cursor |-> [enc |-> "null", created_at |-> 0, id |-> 0]]

\* String.prototype.trim for names made of letters, digits and spaces
RECURSIVE trim(_)
trim(str) ==
    IF str = "" THEN str
    ELSE IF SubSeq(str, 1, 1) = " " THEN trim(SubSeq(str, 2, Len(str)))
    ELSE IF SubSeq(str, Len(str), Len(str)) = " "
         THEN trim(SubSeq(str, 1, Len(str) - 1))
    ELSE str

\* collections.name of the collection created with id c
CollName(c) == "n" \o ToString(c)

\* a collection row as create_collection_with_count inserts it
NewCollection(owner, c, t) ==
    [owner_username |-> owner, name |-> CollName(c), cat_count |-> 0,
     created_at |-> t]

Init ==
    /\ InitStore
    /\ InitHist
    /\ InitAux
    /\ cats = [c \in {1} |-> [created_at |-> 1, username |-> "alice",
                              likes |-> 0]]
    /\ post_count = PostCounts(cats)
    /\ collections = [c \in {1} |-> NewCollection("alice", c, 1)]
    /\ collection_cats = {}
    /\ comments = <<>>
    /\ req = [p \in Procs |-> Idle]
    /\ burst = [snap |-> Null, calls |-> <<>>, over |-> FALSE]
    /\ walk = NoWalk

FollowSteps(track, solo) ==
    \/ \E p \in Procs, token \in Tokens, target \in Usernames,
          action \in {"follow", "unfollow"} :
            StartFollow(p, token, target, action, track, solo)
    \/ \E p \in Procs : LookupTarget(p)
    \/ \E p \in Procs : FollowRpc(p)

LikeSteps(track, solo) ==
    \/ \E p \in Procs, token \in Tokens, catId \in CatIds,
          action \in {"like", "unlike"} :
            StartLike(p, token, catId, action, track, solo)
    \/ \E p \in Procs : EnsureCatExists(p)
    \/ \E p \in Procs : WriteLikeEdge(p)
    \/ \E p \in Procs : RefreshCount(p)
    \/ \E p \in Procs : RefreshPersist(p)

\* every mutation handler, any interleaving
Next ==
    \/ FollowSteps(FALSE, FALSE)
    \/ LikeSteps(FALSE, FALSE)
    \/ \E p \in Procs : Auth(p)
    \/ \E p \in Procs :
          StoreError(p, {"auth", "lookup", "exists", "edge", "count",
                         "persist"})

Spec == Init /\ [][Next]_vars

\* every mutation handler, one request at a time: a request starts only
\* when no other is in flight
NextSeq ==
    \/ FollowSteps(FALSE, TRUE)
    \/ LikeSteps(FALSE, TRUE)
    \/ \E p \in Procs : Auth(p)
    \/ \E p \in Procs :
          StoreError(p, {"auth", "lookup", "exists", "edge", "count",
                         "persist"})

SpecSeq == Init /\ [][NextSeq]_vars

\* follow and unfollow requests only, with the burst history
NextFollow ==
    \/ FollowSteps(TRUE, FALSE)
    \/ \E p \in Procs : Auth(p)
    \/ \E p \in Procs : StoreError(p, {"auth", "lookup"})

SpecFollow == Init /\ [][NextFollow]_vars

\* like and unlike requests only, with the burst history
NextLike ==
    \/ LikeSteps(TRUE, FALSE)
    \/ \E p \in Procs : Auth(p)
    \/ \E p \in Procs :
          StoreError(p, {"auth", "exists", "edge", "count", "persist"})

SpecLike == Init /\ [][NextLike]_vars

\* ------------------------------------------------------------------------
\* Collections: update, delete, add and remove a cat
\* ------------------------------------------------------------------------

\* the rows of collection_cats that reference collection c
MembersOf(members, c) == {m \in members : m.collection_id = c}

\* "target" of both routines: the collection with this id and this owner
TargetCollection(colls, p_collection_id, p_owner_username) ==
    /\ p_collection_id \in DOMAIN colls
    /\ colls[p_collection_id].owner_username = p_owner_username

\* add_cat_to_collection_with_count with cat_count + 1 in place of
\* cat_count + count(inserted)
add_cat_to_collection_with_count_blind(colls, members, p_collection_id, p_cat_id, p_owner_username, now) ==
    IF ~TargetCollection(colls, p_collection_id, p_owner_username)
    THEN [collections |-> colls, collection_cats |-> members,
          found |-> FALSE, cat_count |-> 0]
    ELSE LET present == \E m \in MembersOf(members, p_collection_id) :
                           m.cat_id = p_cat_id
             after == [colls EXCEPT ![p_collection_id].cat_count = @ + 1]
         IN [collections |-> after,
             collection_cats |->
                IF present THEN members
                ELSE members \cup {[collection_id |-> p_collection_id,
                                    cat_id |-> p_cat_id, added_at |-> now]},
             found |-> TRUE,
             cat_count |-> after[p_collection_id].cat_count]

\* add_cat_to_collection_with_count: insert .. on conflict do nothing
\* returning 1, cat_count + count(inserted), returning cat_count; no row
\* comes back when no collection has this id and this owner
add_cat_to_collection_with_count(colls, members, p_collection_id, p_cat_id, p_owner_username, now) ==
    IF ~TargetCollection(colls, p_collection_id, p_owner_username)
    THEN [collections |-> colls, collection_cats |-> members,
          found |-> FALSE, cat_count |-> 0]
    ELSE LET present == \E m \in MembersOf(members, p_collection_id) :
                           m.cat_id = p_cat_id
             inserted == IF present THEN 0 ELSE 1
             after == [colls EXCEPT
                         ![p_collection_id].cat_count = @ + inserted]
         IN [collections |-> after,
             collection_cats |->
                IF present THEN members
                ELSE members \cup {[collection_id |-> p_collection_id,
                                    cat_id |-> p_cat_id, added_at |-> now]},
             found |-> TRUE,
             cat_count |-> after[p_collection_id].cat_count]

\* remove_cat_from_collection_with_count with cat_count - 1 in place of
\* cat_count - count(deleted)
remove_cat_from_collection_with_count_blind(colls, members, p_collection_id, p_cat_id, p_owner_username) ==
    IF ~TargetCollection(colls, p_collection_id, p_owner_username)
    THEN [collections |-> colls, collection_cats |-> members,
          found |-> FALSE, cat_count |-> 0]
    ELSE LET gone == {m \in MembersOf(members, p_collection_id) :
                         m.cat_id = p_cat_id}
             after == [colls EXCEPT
                         ![p_collection_id].cat_count = Max(@ - 1, 0)]
         IN [collections |-> after,
             collection_cats |-> members \ gone,
             found |-> TRUE,
             cat_count |-> after[p_collection_id].cat_count]

\* remove_cat_from_collection_with_count: delete .. returning 1,
\* greatest(cat_count - count(deleted), 0), returning cat_count
remove_cat_from_collection_with_count(colls, members, p_collection_id, p_cat_id, p_owner_username) ==
    IF ~TargetCollection(colls, p_collection_id, p_owner_username)
    THEN [collections |-> colls, collection_cats |-> members,
          found |-> FALSE, cat_count |-> 0]
    ELSE LET gone == {m \in MembersOf(members, p_collection_id) :
                         m.cat_id = p_cat_id}
             deleted == Cardinality(gone)
             after == [colls EXCEPT
                         ![p_collection_id].cat_count = Max(@ - deleted, 0)]
         IN [collections |-> after,
             collection_cats |-> members \ gone,
             found |-> TRUE,
             cat_count |-> after[p_collection_id].cat_count]

\* the delete of DeleteCollectionRow without "on delete cascade" on
\* collection_cats.collection_id
DeleteCollectionRow_noCascade(colls, members, collectionId, username) ==
    IF ~TargetCollection(colls, collectionId, username)
    THEN [collections |-> colls, collection_cats |-> members,
          found |-> FALSE]
    ELSE [collections |-> [c \in DOMAIN colls \ {collectionId} |-> colls[c]],
          collection_cats |-> members,
          found |-> TRUE]

\* the delete by id alone, without the filter on owner_username
DeleteCollectionRow_anyOwner(colls, members, collectionId, username) ==
    IF collectionId \notin DOMAIN colls
    THEN [collections |-> colls, collection_cats |-> members,
          found |-> FALSE]
    ELSE [collections |-> [c \in DOMAIN colls \ {collectionId} |-> colls[c]],
          collection_cats |-> members \ MembersOf(members, collectionId),
          found |-> TRUE]

\* collections.delete().eq("id", id).eq("owner_username", username): the
\* row goes, and with it (on delete cascade) its collection_cats rows
DeleteCollectionRow(colls, members, collectionId, username) ==
    IF ~TargetCollection(colls, collectionId, username)
    THEN [collections |-> colls, collection_cats |-> members,
          found |-> FALSE]
    ELSE [collections |-> [c \in DOMAIN colls \ {collectionId} |-> colls[c]],
          collection_cats |-> members \ MembersOf(members, collectionId),
          found |-> TRUE]

\* handleUpdateCollectionRequest, handleDeleteCollectionRequest,
\* handleAddCatToCollectionRequest, handleRemoveCatFromCollectionRequest up
\* to the first store access
StartCollection(p, token, collectionId, catId, name, action, solo) ==
    /\ Free(p)
    /\ solo => Quiescent
    /\ action \in {"addCat", "removeCat"} => name = Null
    /\ action = "updateCollection" => name # Null /\ catId = 0
    /\ action = "deleteCollection" => name = Null /\ catId = 0
    /\ req' = [req EXCEPT ![p] =
                 [Idle EXCEPT !.op = action, !.token = token,
                              !.target = collectionId, !.cat_id = catId,
                              !.name = name, !.pc = "auth"]]
    /\ UNCHANGED <<storeVars, burst, walk, hist, auxVars>>

\* assertCollectionOwner without the comparison of owner_username
AssertCollectionOwner_noCheck(p) ==
    /\ req[p].pc = "owner"
    /\ LET r == req[p]
       IN req' = [req EXCEPT ![p] =
            IF r.target \notin DOMAIN collections THEN Respond(r, 404)
            ELSE [r EXCEPT !.pc = IF r.op = "updateCollection"
                                  THEN "cupdate" ELSE "cexists"]]
    /\ UNCHANGED <<storeVars, burst, walk, hist, auxVars>>

\* CollectionService.assertCollectionOwner: getCollectionById, then the
\* comparison of owner_username with the caller
AssertCollectionOwner(p) ==
    /\ req[p].pc = "owner"
    /\ LET r == req[p]
       IN req' = [req EXCEPT ![p] =
            IF r.target \notin DOMAIN collections THEN Respond(r, 404)
            ELSE IF collections[r.target].owner_username # r.user
                 THEN Respond(r, 403)
            ELSE [r EXCEPT !.pc = IF r.op = "updateCollection"
                                  THEN "cupdate" ELSE "cexists"]]
    /\ UNCHANGED <<storeVars, burst, walk, hist, auxVars>>

\* CollectionService.ensureCatExists
EnsureCollectionCatExists(p) ==
    /\ req[p].pc = "cexists"
    /\ req' = [req EXCEPT ![p] =
                 IF req[p].cat_id \in DOMAIN cats
                 THEN [@ EXCEPT !.pc = "crpc"]
                 ELSE Respond(@, 404)]
    /\ UNCHANGED <<storeVars, burst, walk, hist, auxVars>>

\* CollectionService.addCatToCollection / removeCatFromCollection: one rpc,
\* one statement; no count in the result is "Collection not found". The
\* error branch covers a response lost after the statement committed.
\* added_at is now(); the routines never read it, and the statements of one
\* run are taken to fall into one tick of the clock.
CollectionRpc(p) ==
    /\ req[p].pc = "crpc"
    /\ \E now \in {1} :
         LET r == req[p]
             out == IF r.op = "addCat"
                    THEN add_cat_to_collection_with_count(
                            collections, collection_cats, r.target,
                            r.cat_id, r.user, now)
                    ELSE remove_cat_from_collection_with_count(
                            collections, collection_cats, r.target,
                            r.cat_id, r.user)
             eff == IF out.collection_cats = collection_cats
                    THEN "none" ELSE "both"
         IN /\ collections' = out.collections
            /\ collection_cats' = out.collection_cats
            /\ \E status \in {200, 500} :
                  req' = [req EXCEPT ![p] =
                     IF ~out.found THEN Respond(r, 404)
                     ELSE Respond([r EXCEPT !.eff = eff,
                                            !.cnt = out.cat_count], status)]
    /\ UNCHANGED <<session_token, follows, followed_at, follower_count,
                   following_count, likesTbl, cats, accounts, post_count,
                   comments, burst, walk, hist, auxVars>>

\* CollectionService.updateCollection: the update by id and owner with
\* payload.name = updates.name.trim(); a name the owner already uses is
\* refused (unique (owner_username, name), code 23505 -> 409)
UpdateCollectionRow(p) ==
    /\ req[p].pc = "cupdate"
    /\ LET r == req[p]
           name == trim(r.name)
           conflict == \E c \in DOMAIN collections \ {r.target} :
                          /\ collections[c].owner_username = r.user
                          /\ collections[c].name = name
       IN IF ~TargetCollection(collections, r.target, r.user)
          THEN /\ req' = [req EXCEPT ![p] = Respond(r, 404)]
               /\ UNCHANGED collections
          ELSE IF conflict
          THEN /\ req' = [req EXCEPT ![p] = Respond(r, 409)]
               /\ UNCHANGED collections
          ELSE /\ collections' = [collections EXCEPT ![r.target].name = name]
               /\ \E status \in {200, 500} :
                     req' = [req EXCEPT ![p] =
                               Respond([r EXCEPT !.eff = "row"], status)]
    /\ UNCHANGED <<session_token, follows, followed_at, follower_count,
                   following_count, likesTbl, cats, accounts, post_count,
                   collection_cats, comments, burst, walk, hist, auxVars>>

\* CollectionService.deleteCollection: the delete by id and owner; no row
\* deleted is "Collection not found or access denied" (404)
DeleteCollection(p) ==
    /\ req[p].pc = "cdelete"
    /\ LET r == req[p]
           out == DeleteCollectionRow(collections, collection_cats,
                                      r.target, r.user)
       IN /\ collections' = out.collections
          /\ collection_cats' = out.collection_cats
          /\ \E status \in {200, 500} :
                req' = [req EXCEPT ![p] =
                   IF ~out.found THEN Respond(r, 404)
                   ELSE Respond([r EXCEPT !.eff = "row"], status)]
    /\ UNCHANGED <<session_token, follows, followed_at, follower_count,
                   following_count, likesTbl, cats, accounts, post_count,
                   comments, burst, walk, hist, auxVars>>

CollectionSteps(solo) ==
    \/ \E p \in Procs, token \in Tokens, collectionId \in CollIds,
          catId \in MemberCatIds, action \in {"addCat", "removeCat"} :
            StartCollection(p, token, collectionId, catId, Null, action, solo)
    \/ \E p \in Procs, token \in Tokens, collectionId \in CollIds,
          name \in Names :
            StartCollection(p, token, collectionId, 0, name,
                            "updateCollection", solo)
    \/ \E p \in Procs, token \in Tokens, collectionId \in CollIds :
            StartCollection(p, token, collectionId, 0, Null,
                            "deleteCollection", solo)
    \/ \E p \in Procs : AssertCollectionOwner(p)
    \/ \E p \in Procs : EnsureCollectionCatExists(p)
    \/ \E p \in Procs : CollectionRpc(p)
    \/ \E p \in Procs : UpdateCollectionRow(p)
    \/ \E p \in Procs : DeleteCollection(p)

\* the collection handlers, any interleaving
NextCollections ==
    \/ CollectionSteps(FALSE)
    \/ \E p \in Procs : Auth(p)
    \/ \E p \in Procs :
          StoreError(p, {"auth", "owner", "cexists", "crpc", "cupdate",
                         "cdelete"})

\* collection 1 of alice, empty, and the cats 1..MaxCats (no cat has id 0)
InitCollections ==
    /\ InitStore
    /\ InitHist
    /\ InitAux
    /\ cats = [c \in CatIds |-> [created_at |-> 1, username |-> "alice",
                                 likes |-> 0]]
    /\ post_count = PostCounts(cats)
    /\ collections = [c \in {1} |-> NewCollection("alice", c, 1)]
    /\ collection_cats = {}
    /\ comments = <<>>
    /\ req = [p \in Procs |-> Idle]
    /\ burst = [snap |-> Null, calls |-> <<>>, over |-> FALSE]
    /\ walk = NoWalk

SpecCollections == InitCollections /\ [][NextCollections]_vars

\* ------------------------------------------------------------------------
\* Sessions: registration, login, resolution of a token
\* ------------------------------------------------------------------------

\* generateSessionToken returning one fixed value
generateSessionToken_fixed(n) == "s0"

\* generateSessionToken: 32 bytes from crypto.getRandomValues as 64 hex
\* characters; the n-th token generated differs from every token generated
\* before it
generateSessionToken(n) == "s" \o ToString(n)

\* the tokens a request may carry once logins have happened
SessionTokens == Tokens \cup {generateSessionToken(n) : n \in 1..MaxTokens}

\* requests in flight that will generate a token
TokensPending ==
    Cardinality({q \in Procs :
                    ~Free(q) /\ req[q].op \in {"login", "register"}})

\* f with the value v at x, x added to the domain if it is not in it
Put(f, x, v) == [y \in DOMAIN f \cup {x} |-> IF y = x THEN v ELSE f[y]]

\* users.select(..).eq("email", email): the usernames of the matching rows
UsersByEmail(acc, email) == {u \in DOMAIN acc : acc[u].email = email}

\* handleGetUserProfileRequest without a target username
StartProfile(p, token) ==
    /\ Free(p)
    /\ req' = [req EXCEPT ![p] =
                 [Idle EXCEPT !.op = "profile", !.token = token,
                              !.pc = "auth"]]
    /\ UNCHANGED <<storeVars, burst, walk, hist, auxVars>>

\* handleLoginRequest up to the first store access
StartLogin(p, email, passwordHash) ==
    /\ Free(p)
    /\ hist.nTokens + TokensPending < MaxTokens
    /\ req' = [req EXCEPT ![p] =
                 [Idle EXCEPT !.op = "login", !.email = email,
                              !.passwd_hash = passwordHash,
                              !.pc = "lselect"]]
    /\ UNCHANGED <<storeVars, burst, walk, hist, auxVars>>

\* handleRegisterRequest up to the first store access
StartRegister(p, username, passwordHash, email) ==
    /\ Free(p)
    /\ hist.nTokens + TokensPending < MaxTokens
    /\ req' = [req EXCEPT ![p] =
                 [Idle EXCEPT !.op = "register", !.target = username,
                              !.email = email,
                              !.passwd_hash = passwordHash,
                              !.pc = "avail"]]
    /\ UNCHANGED <<storeVars, burst, walk, hist, auxVars>>

\* UserService.loginUser: the select by email (maybeSingle: more than one
\* row is an error) and the password check
LoginSelect(p) ==
    /\ req[p].pc = "lselect"
    /\ LET r == req[p]
           rows == UsersByEmail(accounts, r.email)
       IN req' = [req EXCEPT ![p] =
            IF Cardinality(rows) > 1 THEN Respond(r, 500)
            ELSE IF rows = {} THEN Respond(r, 401)
            ELSE LET u == CHOOSE x \in rows : TRUE
                 IN IF accounts[u].password_hash # r.passwd_hash
                    THEN Respond(r, 401)
                    ELSE [r EXCEPT !.user = u, !.pc = "lupdate"]]
    /\ UNCHANGED <<storeVars, burst, walk, hist, auxVars>>

\* the update of loginUser without its filter on email
UpdateSessionToken_allRows(tok, acc, email, sessionToken) ==
    [u \in DOMAIN tok |-> sessionToken]

\* the update of loginUser matching no row
UpdateSessionToken_noRow(tok, acc, email, sessionToken) == tok

\* users.update({session_token}).eq("email", email)
UpdateSessionToken(tok, acc, email, sessionToken) ==
    [u \in DOMAIN tok |->
        IF acc[u].email = email THEN sessionToken ELSE tok[u]]

\* UserService.loginUser: generateSessionToken and the update by email.
\* The error branch covers a response lost after the update committed.
LoginUpdate(p) ==
    /\ req[p].pc = "lupdate"
    /\ LET r == req[p]
           sessionToken == generateSessionToken(hist.nTokens + 1)
       IN /\ session_token' = UpdateSessionToken(session_token, accounts,
                                                 r.email, sessionToken)
          /\ \E status \in {200, 500} :
                /\ req' = [req EXCEPT ![p] =
                             Respond([r EXCEPT !.token = sessionToken,
                                               !.eff = "token"], status)]
                /\ UNCHANGED auxVars
                /\ hist' =
                     [hist EXCEPT
                        !.nTokens = @ + 1,
                        !.issued = @ \cup {<<sessionToken, r.user>>},
                        !.latest = Put(@, r.user, sessionToken),
                        !.returned = IF status = 200
                                     THEN Put(@, r.user, sessionToken)
                                     ELSE @]
    /\ UNCHANGED <<follows, follower_count, following_count, likesTbl, cats,
                   extraVars, burst, walk>>

\* UserService.registerUser: isUsernameAvailable and isEmailAvailable
RegisterAvail(p) ==
    /\ req[p].pc = "avail"
    /\ LET r == req[p]
           usernameAvailable == r.target \notin DOMAIN accounts
           emailAvailable == UsersByEmail(accounts, r.email) = {}
       IN req' = [req EXCEPT ![p] =
            IF ~usernameAvailable \/ ~emailAvailable
            THEN Respond([r EXCEPT !.eff = "taken"], 409)
            ELSE [r EXCEPT !.pc = "insert"]]
    /\ UNCHANGED <<storeVars, burst, walk, hist, auxVars>>

\* UserService.registerUser: generateSessionToken and the insert. The
\* insert is refused when the username or the email is taken by now
\* (username is the key of users, email is unique): "Failed to register
\* user" (500). eff "taken" notes that the call met a registered username
\* or email.
RegisterInsert(p) ==
    /\ req[p].pc = "insert"
    /\ LET r == req[p]
           sessionToken == generateSessionToken(hist.nTokens + 1)
           refused == \/ r.target \in DOMAIN accounts
                      \/ UsersByEmail(accounts, r.email) # {}
       IN IF refused
          THEN /\ req' = [req EXCEPT ![p] =
                            Respond([r EXCEPT !.eff = "taken"], 500)]
               /\ UNCHANGED <<session_token, accounts, follower_count,
                              following_count, post_count, hist, auxVars>>
          ELSE /\ session_token' = Put(session_token, r.target, sessionToken)
               /\ accounts' = Put(accounts, r.target,
                                  [email |-> r.email,
                                   password_hash |-> r.passwd_hash])
               /\ follower_count' = Put(follower_count, r.target, 0)
               /\ following_count' = Put(following_count, r.target, 0)
               /\ post_count' = Put(post_count, r.target, 0)
               /\ \E status \in {200, 500} :
                     /\ req' = [req EXCEPT ![p] =
                                  Respond([r EXCEPT !.token = sessionToken,
                                                    !.user = r.target,
                                                    !.eff = "token"], status)]
                     /\ UNCHANGED auxVars
                     /\ hist' =
                          [hist EXCEPT
                             !.nTokens = @ + 1,
                             !.issued = @ \cup {<<sessionToken, r.target>>},
                             !.latest = Put(@, r.target, sessionToken),
                             !.returned =
                                Put(@, r.target,
                                    IF status = 200 THEN sessionToken
                                                    ELSE Null)]
    /\ UNCHANGED <<follows, followed_at, likesTbl, cats, collections,
                   collection_cats, comments, burst, walk>>

SessionSteps ==
    \/ \E p \in Procs, token \in SessionTokens : StartProfile(p, token)
    \/ \E p \in Procs, email \in Emails, passwordHash \in Hashes :
          StartLogin(p, email, passwordHash)
    \/ \E p \in Procs, username \in NewUsernames, passwordHash \in Hashes,
          email \in Emails :
            StartRegister(p, username, passwordHash, email)
    \/ \E p \in Procs : LoginSelect(p)
    \/ \E p \in Procs : LoginUpdate(p)
    \/ \E p \in Procs : RegisterAvail(p)
    \/ \E p \in Procs : RegisterInsert(p)

\* registrations, logins and requests that resolve a token, any
\* interleaving
NextSession ==
    \/ SessionSteps
    \/ \E p \in Procs : Auth(p)
    \/ \E p \in Procs :
          StoreError(p, {"auth", "lselect", "lupdate", "avail", "insert"})

\* two registered users, alice follows bob and likes her own cat 1
InitSession ==
    /\ followed_at = <<>>
    /\ session_token = [u \in Users |-> IF u = "alice" THEN "ta" ELSE "tb"]
    /\ accounts = [u \in Users |->
                     [email |-> IF u = "alice" THEN "a@x" ELSE "b@x",
                      password_hash |-> IF u = "alice" THEN "ha" ELSE "hb"]]
    /\ follows = {<<"alice", "bob">>}
    /\ follower_count = [u \in Users |-> IF u = "bob" THEN 1 ELSE 0]
    /\ following_count = [u \in Users |-> IF u = "alice" THEN 1 ELSE 0]
    /\ likesTbl = {<<1, "alice">>}
    /\ cats = [c \in {1} |-> [created_at |-> 1, username |-> "alice",
                              likes |-> 1]]
    /\ post_count = PostCounts(cats)
    /\ collections = [c \in {1} |-> NewCollection("alice", c, 1)]
    /\ collection_cats = {}
    /\ comments = <<>>
    /\ InitHist
    /\ InitAux
    /\ req = [p \in Procs |-> Idle]
    /\ burst = [snap |-> Null, calls |-> <<>>, over |-> FALSE]
    /\ walk = NoWalk

SpecSession == InitSession /\ [][NextSession]_vars

\* ------------------------------------------------------------------------
\* Comments: creation and deletion by the author
\* ------------------------------------------------------------------------

\* comment_id is generated by the store for each inserted row: the n-th
\* comment created gets id n, an id is never given twice
CommentIds == 1..MaxComments

\* createComment calls that may still insert a row
CommentsPending ==
    Cardinality({p \in Procs : /\ req[p].op = "createComment"
                               /\ req[p].pc \notin {"idle", "done"}})

\* handleAddCommentRequest up to the first store access
StartComment(p, token, catId) ==
    /\ Free(p)
    /\ hist.nComments + CommentsPending < MaxComments
    /\ req' = [req EXCEPT ![p] =
                 [Idle EXCEPT !.op = "createComment", !.token = token,
                              !.cat_id = catId, !.pc = "auth"]]
    /\ UNCHANGED <<storeVars, burst, walk, hist, auxVars>>

\* handleDeleteCommentRequest up to the first store access
StartDeleteComment(p, token, commentId) ==
    /\ Free(p)
    /\ req' = [req EXCEPT ![p] =
                 [Idle EXCEPT !.op = "deleteComment", !.token = token,
                              !.target = commentId, !.pc = "auth"]]
    /\ UNCHANGED <<storeVars, burst, walk, hist, auxVars>>

\* CommentService.assertCatExists
AssertCatExists(p) ==
    /\ req[p].pc = "mcat"
    /\ req' = [req EXCEPT ![p] =
                 IF req[p].cat_id \in DOMAIN cats
                 THEN [@ EXCEPT !.pc = "mguest"]
                 ELSE Respond(@, 404)]
    /\ UNCHANGED <<storeVars, burst, walk, hist, auxVars>>

\* GuestService.fetchGuests([username], username): the profile of the
\* author, read for the response
FetchGuests(p) ==
    /\ req[p].pc = "mguest"
    /\ req' = [req EXCEPT ![p].pc = "minsert"]
    /\ UNCHANGED <<storeVars, burst, walk, hist, auxVars>>

\* CommentService.createComment: comments.insert({cat_id, username, comment});
\* the route answers 201. The error branch covers a response lost after the
\* insert committed.
InsertComment(p) ==
    /\ req[p].pc = "minsert"
    /\ LET r == req[p]
           id == hist.nComments + 1
       IN /\ comments' = Put(comments, id,
                             [cat_id |-> r.cat_id, username |-> r.user])
          /\ UNCHANGED auxVars
          /\ hist' = [hist EXCEPT !.nComments = id]
          /\ \E status \in {201, 500} :
                req' = [req EXCEPT ![p] =
                          Respond([r EXCEPT !.eff = "row", !.target = id],
                                  status)]
    /\ UNCHANGED <<session_token, follows, followed_at, follower_count,
                   following_count, likesTbl, cats, accounts, post_count,
                   collections, collection_cats, burst, walk>>

\* the select by comment_id of deleteOwnComment without the comparison of
\* the row's username with the caller
LoadComment_noCheck(p) ==
    /\ req[p].pc = "mload"
    /\ LET r == req[p]
       IN req' = [req EXCEPT ![p] =
            IF r.target \notin DOMAIN comments THEN Respond(r, 404)
            ELSE [r EXCEPT !.pc = "mdelete"]]
    /\ UNCHANGED <<storeVars, burst, walk, hist, auxVars>>

\* CommentService.deleteOwnComment: comments.select(..).eq("comment_id", id)
\* .maybeSingle(), "Comment not found" (404), then "Cannot delete another
\* user's comment" (403)
LoadComment(p) ==
    /\ req[p].pc = "mload"
    /\ LET r == req[p]
       IN req' = [req EXCEPT ![p] =
            IF r.target \notin DOMAIN comments THEN Respond(r, 404)
            ELSE IF comments[r.target].username # r.user
                 THEN Respond(r, 403)
            ELSE [r EXCEPT !.pc = "mdelete"]]
    /\ UNCHANGED <<storeVars, burst, walk, hist, auxVars>>

\* comments.delete().eq("comment_id", commentId): no row matched is not an
\* error
DeleteCommentRow(tbl, commentId) ==
    [c \in DOMAIN tbl \ {commentId} |-> tbl[c]]

\* CommentService.deleteOwnComment: the delete by comment_id; the route
\* answers ok({status: "deleted"}). The error branch covers a response lost
\* after the delete committed.
DeleteComment(p) ==
    /\ req[p].pc = "mdelete"
    /\ LET r == req[p]
           eff == IF r.target \in DOMAIN comments THEN "row" ELSE "none"
       IN /\ comments' = DeleteCommentRow(comments, r.target)
          /\ \E status \in {200, 500} :
                req' = [req EXCEPT ![p] =
                          Respond([r EXCEPT !.eff = eff], status)]
    /\ UNCHANGED <<session_token, follows, followed_at, follower_count,
                   following_count, likesTbl, cats, accounts, post_count,
                   collections, collection_cats, burst, walk, hist, auxVars>>

\* the comment handlers, any interleaving
NextComments ==
    \/ \E p \in Procs, token \in Tokens, catId \in CatIds :
          StartComment(p, token, catId)
    \/ \E p \in Procs, token \in Tokens, commentId \in CommentIds :
          StartDeleteComment(p, token, commentId)
    \/ \E p \in Procs : Auth(p)
    \/ \E p \in Procs : AssertCatExists(p)
    \/ \E p \in Procs : FetchGuests(p)
    \/ \E p \in Procs : InsertComment(p)
    \/ \E p \in Procs : LoadComment(p)
    \/ \E p \in Procs : DeleteComment(p)
    \/ \E p \in Procs :
          StoreError(p, {"auth", "mcat", "mguest", "minsert", "mload",
                         "mdelete"})

\* no comment yet; cat 1 exists, cat 2 does not
InitComments ==
    /\ InitStore
    /\ InitHist
    /\ InitAux
    /\ cats = [c \in {1} |-> [created_at |-> 1, username |-> "alice",
                              likes |-> 0]]
    /\ post_count = PostCounts(cats)
    /\ collections = <<>>
    /\ collection_cats = {}
    /\ comments = <<>>
    /\ req = [p \in Procs |-> Idle]
    /\ burst = [snap |-> Null, calls |-> <<>>, over |-> FALSE]
    /\ walk = NoWalk

SpecComments == InitComments /\ [][NextComments]_vars

\* ------------------------------------------------------------------------
\* Every mutation handler of the follow, like and collection routes through
\* one request slot: a request starts when the one before it has answered
\* ------------------------------------------------------------------------

\* the requests a slot may start
StartMutation(p) ==
    \/ \E token \in Tokens, target \in Usernames,
          action \in {"follow", "unfollow"} :
            StartFollow(p, token, target, action, FALSE, FALSE)
    \/ \E token \in Tokens, catId \in CatIds, action \in {"like", "unlike"} :
            StartLike(p, token, catId, action, FALSE, FALSE)
    \/ \E token \in Tokens, collectionId \in CollIds, catId \in MemberCatIds,
          action \in {"addCat", "removeCat"} :
            StartCollection(p, token, collectionId, catId, Null, action,
                            FALSE)
    \/ \E token \in Tokens, collectionId \in CollIds, name \in Names :
            StartCollection(p, token, collectionId, 0, name,
                            "updateCollection", FALSE)
    \/ \E token \in Tokens, collectionId \in CollIds :
            StartCollection(p, token, collectionId, 0, Null,
                            "deleteCollection", FALSE)

NextTargets ==
    \/ StartMutation("r1")
    \/ Auth("r1")
    \/ LookupTarget("r1")
    \/ FollowRpc("r1")
    \/ EnsureCatExists("r1")
    \/ WriteLikeEdge("r1")
    \/ RefreshCount("r1")
    \/ RefreshPersist("r1")
    \/ AssertCollectionOwner("r1")
    \/ EnsureCollectionCatExists("r1")
    \/ CollectionRpc("r1")
    \/ UpdateCollectionRow("r1")
    \/ DeleteCollection("r1")
    \/ StoreError("r1", {"auth", "lookup", "exists", "edge", "count",
                         "persist", "owner", "cexists", "crpc", "cupdate",
                         "cdelete"})

\* cat 1 and collection 1 of alice exist; cat 2, collection 2 and user zed
\* do not
SpecTargets == Init /\ [][NextTargets]_vars

\* ------------------------------------------------------------------------
\* Cats: creation (POST /cats/create)
\* ------------------------------------------------------------------------

\* create_cat_with_post_count without the update of users.post_count
create_cat_with_post_count_noCount(catTbl, counts, p_id, p_username, now) ==
    [cats |-> Put(catTbl, p_id, [created_at |-> now, username |-> p_username,
                                 likes |-> 0]),
     post_count |-> counts]

\* create_cat_with_post_count: insert into cats .. returning *, then
\* post_count = coalesce(post_count, 0) + count(inserted) where username =
\* p_username, in one statement
create_cat_with_post_count(catTbl, counts, p_id, p_username, now) ==
    LET inserted == IF p_id \in DOMAIN catTbl THEN 0 ELSE 1
    IN [cats |-> Put(catTbl, p_id, [created_at |-> now,
                                    username |-> p_username, likes |-> 0]),
        post_count |-> AddUserCount(counts, p_username, inserted)]

\* createCat calls that may still insert a row
CatsPending ==
    Cardinality({p \in Procs : /\ req[p].op = "createCat"
                               /\ req[p].pc \notin {"idle", "done"}})

\* handleCreateCatRequest up to the first store access: the fields and the
\* image are valid
StartCreateCat(p, token) ==
    /\ Free(p)
    /\ Cardinality(DOMAIN cats) + CatsPending < MaxPosts
    /\ req' = [req EXCEPT ![p] =
                 [Idle EXCEPT !.op = "createCat", !.token = token,
                              !.pc = "auth"]]
    /\ UNCHANGED <<storeVars, burst, walk, hist, auxVars>>

\* env.R2_BUCKET.put(r2Key, image): the image goes to the bucket before the
\* row is written
PutImage(p) ==
    /\ req[p].pc = "r2put"
    /\ req' = [req EXCEPT ![p].pc = "catrpc"]
    /\ UNCHANGED <<storeVars, burst, walk, hist, auxVars>>

\* UserMetricsService.createCatWithPostCount: one rpc, one statement; the id
\* is crypto.randomUUID(), here the first id no row has. The error branch
\* covers a response lost after the statement committed. created_at is
\* now(); the routine never reads it.
CreateCatRpc(p) ==
    /\ req[p].pc = "catrpc"
    /\ \E now \in {1} :
         LET r == req[p]
             catId == Cardinality(DOMAIN cats) + 1
             out == create_cat_with_post_count(cats, post_count, catId,
                                               r.user, now)
         IN /\ cats' = out.cats
            /\ post_count' = out.post_count
            /\ \/ req' = [req EXCEPT ![p] =
                            [r EXCEPT !.pc = "catmeta", !.eff = "both",
                                      !.cat_id = catId]]
               \/ req' = [req EXCEPT ![p] =
                            Respond([r EXCEPT !.eff = "both",
                                              !.cat_id = catId], 500)]
    /\ UNCHANGED <<session_token, follows, followed_at, follower_count,
                   following_count, likesTbl, accounts, collections,
                   collection_cats, comments, burst, walk, hist, auxVars>>

\* mapCatsWithMetadata: GuestService.fetchGuests and fetchUserLikedCatIds
\* read the poster and the like flags for the response, then ok({cat}, 201)
MapCatWithMetadata(p) ==
    /\ req[p].pc = "catmeta"
    /\ req' = [req EXCEPT ![p] = Respond(@, 201)]
    /\ UNCHANGED <<storeVars, burst, walk, hist, auxVars>>

\* the cat creation handler, any interleaving
NextCats ==
    \/ \E p \in Procs, token \in Tokens : StartCreateCat(p, token)
    \/ \E p \in Procs : Auth(p)
    \/ \E p \in Procs : PutImage(p)
    \/ \E p \in Procs : CreateCatRpc(p)
    \/ \E p \in Procs : MapCatWithMetadata(p)
    \/ \E p \in Procs : StoreError(p, {"auth", "r2put", "catrpc", "catmeta"})

SpecCats == Init /\ [][NextCats]_vars

\* ------------------------------------------------------------------------
\* Collections: creation and renaming
\* ------------------------------------------------------------------------

\* create_collection_with_count without "on conflict .. do nothing"
create_collection_with_count_noConflict(colls, p_id, p_owner_username, p_name, now) ==
    [collections |->
        Put(colls, p_id, [owner_username |-> p_owner_username,
                          name |-> p_name, cat_count |-> 0,
                          created_at |-> now]),
     inserted |-> TRUE]

\* create_collection_with_count: insert .. on conflict (owner_username,
\* name) do nothing returning *; no row comes back when the owner already
\* has a collection of this name
create_collection_with_count(colls, p_id, p_owner_username, p_name, now) ==
    IF \E c \in DOMAIN colls : /\ colls[c].owner_username = p_owner_username
                               /\ colls[c].name = p_name
    THEN [collections |-> colls, inserted |-> FALSE]
    ELSE [collections |->
             Put(colls, p_id, [owner_username |-> p_owner_username,
                               name |-> p_name, cat_count |-> 0,
                               created_at |-> now]),
          inserted |-> TRUE]

\* createCollection calls that may still insert a row
CollectionsPending ==
    Cardinality({p \in Procs : /\ req[p].op = "createCollection"
                               /\ req[p].pc \notin {"idle", "done"}})

\* handleCreateCollectionRequest up to the first store access
StartCreateCollection(p, token, name) ==
    /\ Free(p)
    /\ Cardinality(DOMAIN collections) + CollectionsPending < MaxColls
    /\ req' = [req EXCEPT ![p] =
                 [Idle EXCEPT !.op = "createCollection", !.token = token,
                              !.name = name, !.pc = "auth"]]
    /\ UNCHANGED <<storeVars, burst, walk, hist, auxVars>>

\* CollectionService.createCollection: one rpc with p_name = name.trim();
\* the id is crypto.randomUUID(), here the first id no row has; no row in
\* the result is ConflictError (409). The error branch covers a response
\* lost after the statement committed. created_at is now(); the routine
\* never reads it.
CreateCollectionRpc(p) ==
    /\ req[p].pc = "collrpc"
    /\ \E now \in {1} :
         LET r == req[p]
             collectionId == Cardinality(DOMAIN collections) + 1
             out == create_collection_with_count(collections, collectionId,
                                                 r.user, trim(r.name), now)
         IN /\ collections' = out.collections
            /\ IF ~out.inserted
               THEN req' = [req EXCEPT ![p] = Respond(r, 409)]
               ELSE \/ req' = [req EXCEPT ![p] =
                                 [r EXCEPT !.pc = "collmeta", !.eff = "row"]]
                    \/ req' = [req EXCEPT ![p] =
                                 Respond([r EXCEPT !.eff = "row"], 500)]
    /\ UNCHANGED <<session_token, follows, followed_at, follower_count,
                   following_count, likesTbl, cats, accounts, post_count,
                   collection_cats, comments, burst, walk, hist, auxVars>>

\* handleCreateCollectionRequest: guestService.fetchGuests for the owner,
\* then ok({collection}, 201)
CollectionOwnerGuest(p) ==
    /\ req[p].pc = "collmeta"
    /\ req' = [req EXCEPT ![p] = Respond(@, 201)]
    /\ UNCHANGED <<storeVars, burst, walk, hist, auxVars>>

\* creations and renamings, any interleaving
NextNames ==
    \/ \E p \in Procs, token \in Tokens, name \in RawNames :
          StartCreateCollection(p, token, name)
    \/ \E p \in Procs, token \in Tokens, collectionId \in 1..MaxColls,
          name \in RawNames :
            StartCollection(p, token, collectionId, 0, name,
                            "updateCollection", FALSE)
    \/ \E p \in Procs : Auth(p)
    \/ \E p \in Procs : CreateCollectionRpc(p)
    \/ \E p \in Procs : CollectionOwnerGuest(p)
    \/ \E p \in Procs : AssertCollectionOwner(p)
    \/ \E p \in Procs : UpdateCollectionRow(p)
    \/ \E p \in Procs :
          StoreError(p, {"auth", "collrpc", "collmeta", "owner", "cupdate"})

\* collection 1 of alice, named "n1"
SpecNames == Init /\ [][NextNames]_vars

\* ------------------------------------------------------------------------
\* Keyset-paginated listing of cats (GET /cats/list)
\* ------------------------------------------------------------------------

\* A cursor string as the client holds it: enc tells what the string is
\* ("null": absent or empty, "b64": base64 of a JSON object with both key
\* fields as strings, "junk": anything else), the rest is the payload.
NullCursor == [enc |-> "null", created_at |-> 0, id |-> 0]

\* base64Encode(JSON.stringify(payload))
base64Encode(payload) ==
    [enc |-> "b64", created_at |-> payload.created_at, id |-> payload.id]

\* encodeCursor: base64 of the JSON object {created_at, id} of the row
encodeCursor(row) ==
    base64Encode([created_at |-> row.created_at, id |-> row.id])

\* decodeCursor: no cursor is the first page; anything that does not decode
\* to {created_at, id} is "Invalid cursor"
decodeCursor(rawCursor) ==
    IF rawCursor.enc = "null"
    THEN [present |-> FALSE, created_at |-> 0, id |-> 0, error |-> Null]
    ELSE IF rawCursor.enc = "b64"
         THEN [present |-> TRUE, created_at |-> rawCursor.created_at,
               id |-> rawCursor.id, error |-> Null]
         ELSE [present |-> FALSE, created_at |-> 0, id |-> 0,
               error |-> "Invalid cursor"]

\* buildCursorClause:
\* and(created_at.lt.C),and(created_at.eq.C,id.lt.I)
CursorClause(cursor, row) ==
    \/ row.created_at < cursor.created_at
    \/ row.created_at = cursor.created_at /\ row.id < cursor.id

\* the id tie-break of the order taken ascending
RowBefore_asc(a, b) ==
    \/ a.created_at > b.created_at
    \/ a.created_at = b.created_at /\ a.id < b.id

\* order("created_at", desc).order("id", desc)
RowBefore(a, b) ==
    \/ a.created_at > b.created_at
    \/ a.created_at = b.created_at /\ a.id > b.id

RECURSIVE OrderDesc(_)
OrderDesc(rows) ==
    IF rows = {} THEN <<>>
    ELSE LET first == CHOOSE a \in rows :
                         \A b \in rows \ {a} : RowBefore(a, b)
         IN <<first>> \o OrderDesc(rows \ {first})

\* .limit(n)
Limit(rows, n) == IF Len(rows) > n THEN SubSeq(rows, 1, n) ELSE rows

\* the rows of public.cats with their id
CatRows(catTbl) ==
    {[id |-> c, created_at |-> catTbl[c].created_at,
      username |-> catTbl[c].username] : c \in DOMAIN catTbl}

\* the rows the cats query of handleListCatsRequest selects
ListCatsQuery(catTbl, usernameFilter, cursor, limit) ==
    LET matching ==
          {r \in CatRows(catTbl) :
              /\ usernameFilter # Null => r.username = usernameFilter
              /\ cursor.present => CursorClause(cursor, r)}
    IN Limit(OrderDesc(matching), limit + 1)

\* handleListCatsRequest from the query result to the payload:
\* hasMore, visibleRows, nextCursor
ListCatsPage(catTbl, usernameFilter, rawCursor, limit) ==
    LET decoded == decodeCursor(rawCursor)
        rows == ListCatsQuery(catTbl, usernameFilter, decoded, limit)
        hasMore == Len(rows) > limit
    IN IF decoded.error # Null
       THEN [status |-> 400, cats |-> <<>>, next_cursor |-> NullCursor]
       ELSE [status |-> 200,
             cats |-> IF hasMore THEN SubSeq(rows, 1, limit) ELSE rows,
             next_cursor |-> IF hasMore THEN encodeCursor(rows[limit + 1])
                                        ELSE NullCursor]

\* a client starts walking the listing: first request, no cursor
BeginWalk(limit, usernameFilter) ==
    /\ walk = NoWalk
    /\ LET page == ListCatsPage(cats, usernameFilter, NullCursor, limit)
       IN walk' = [listing |-> "cats", limit |-> limit,
                   filter |-> usernameFilter, coll |-> 0,
                   pages |-> <<[c \in 1..Len(page.cats) |-> page.cats[c].id]>>,
                   cursor |-> page.next_cursor]
    /\ UNCHANGED <<storeVars, req, burst, hist, auxVars>>

\* the client passes the next_cursor it received back unmodified
NextPage ==
    /\ walk.listing = "cats"
    /\ walk.cursor # NullCursor
    /\ LET page == ListCatsPage(cats, walk.filter, walk.cursor, walk.limit)
       IN walk' = [walk EXCEPT
                     !.pages = Append(@,
                         [c \in 1..Len(page.cats) |-> page.cats[c].id]),
                     !.cursor = page.next_cursor]
    /\ UNCHANGED <<storeVars, req, burst, hist, auxVars>>

\* ------------------------------------------------------------------------
\* Keyset-paginated listing of a user's collections (GET /collections/list)
\* ------------------------------------------------------------------------

\* encodeCollectionListCursor: base64 of the JSON object {created_at, id}
encodeCollectionListCursor(row) ==
    [enc |-> "b64", created_at |-> row.created_at, id |-> row.id]

\* decodeCollectionListCursor
decodeCollectionListCursor(rawCursor) ==
    IF rawCursor.enc = "null"
    THEN [present |-> FALSE, created_at |-> 0, id |-> 0, error |-> Null]
    ELSE IF rawCursor.enc = "b64"
         THEN [present |-> TRUE, created_at |-> rawCursor.created_at,
               id |-> rawCursor.id, error |-> Null]
         ELSE [present |-> FALSE, created_at |-> 0, id |-> 0,
               error |-> "Invalid cursor"]

\* buildCollectionListCursorClause:
\* and(created_at.lt.C),and(created_at.eq.C,id.lt.I)
CollectionListCursorClause(cursor, row) ==
    \/ row.created_at < cursor.created_at
    \/ row.created_at = cursor.created_at /\ row.id < cursor.id

\* the rows of public.collections with their id
CollectionRows(collTbl) ==
    {[id |-> c, created_at |-> collTbl[c].created_at,
      owner_username |-> collTbl[c].owner_username] : c \in DOMAIN collTbl}

\* CollectionService.listCollectionsForUser
listCollectionsForUser(collTbl, username, cursor, limit) ==
    LET matching ==
          {r \in CollectionRows(collTbl) :
              /\ r.owner_username = username
              /\ cursor.present => CollectionListCursorClause(cursor, r)}
        rows == Limit(OrderDesc(matching), limit + 1)
        hasMore == Len(rows) > limit
    IN [rows |-> IF hasMore THEN SubSeq(rows, 1, limit) ELSE rows,
        nextCursor |-> IF hasMore
                       THEN encodeCollectionListCursor(rows[limit + 1])
                       ELSE NullCursor]

\* handleListCollectionsRequest
ListCollectionsPage(collTbl, username, rawCursor, limit) ==
    LET decoded == decodeCollectionListCursor(rawCursor)
        listed == listCollectionsForUser(collTbl, username, decoded, limit)
    IN IF decoded.error # Null
       THEN [status |-> 400, ids |-> <<>>, next_cursor |-> NullCursor]
       ELSE [status |-> 200,
             ids |-> [i \in 1..Len(listed.rows) |-> listed.rows[i].id],
             next_cursor |-> listed.nextCursor]

BeginWalkCollections(limit, username) ==
    /\ walk = NoWalk
    /\ LET page == ListCollectionsPage(collections, username, NullCursor,
                                       limit)
       IN walk' = [listing |-> "collections", limit |-> limit,
                   filter |-> username, coll |-> 0,
                   pages |-> <<page.ids>>, cursor |-> page.next_cursor]
    /\ UNCHANGED <<storeVars, req, burst, hist, auxVars>>

NextPageCollections ==
    /\ walk.listing = "collections"
    /\ walk.cursor # NullCursor
    /\ LET page == ListCollectionsPage(collections, walk.filter, walk.cursor,
                                       walk.limit)
       IN walk' = [walk EXCEPT !.pages = Append(@, page.ids),
                               !.cursor = page.next_cursor]
    /\ UNCHANGED <<storeVars, req, burst, hist, auxVars>>

\* ------------------------------------------------------------------------
\* Keyset-paginated listing of the cats of a collection (GET /collections)
\* ------------------------------------------------------------------------

\* encodeCollectionCursor: base64 of the JSON object {added_at, cat_id};
\* created_at and id of the cursor record hold added_at and cat_id
encodeCollectionCursor(row) ==
    [enc |-> "b64cc", created_at |-> row.added_at, id |-> row.cat_id]

\* decodeCollectionCursor
decodeCollectionCursor(rawCursor) ==
    IF rawCursor.enc = "null"
    THEN [present |-> FALSE, added_at |-> 0, cat_id |-> 0, error |-> Null]
    ELSE IF rawCursor.enc = "b64cc"
         THEN [present |-> TRUE, added_at |-> rawCursor.created_at,
               cat_id |-> rawCursor.id, error |-> Null]
         ELSE [present |-> FALSE, added_at |-> 0, cat_id |-> 0,
               error |-> "Invalid cursor"]

\* buildCollectionCursorClause:
\* the clause on added_at alone, without the cat_id tie-break
CollectionCursorClause_noTieBreak(cursor, row) ==
    row.added_at <= cursor.added_at

\* buildCollectionCursorClause:
\* and(added_at.lt.A),and(added_at.eq.A,cat_id.lt.C)
CollectionCursorClause(cursor, row) ==
    \/ row.added_at < cursor.added_at
    \/ row.added_at = cursor.added_at /\ row.cat_id < cursor.cat_id

\* order("added_at", desc).order("cat_id", desc)
MemberBefore(a, b) ==
    \/ a.added_at > b.added_at
    \/ a.added_at = b.added_at /\ a.cat_id > b.cat_id

RECURSIVE OrderMembersDesc(_)
OrderMembersDesc(rows) ==
    IF rows = {} THEN <<>>
    ELSE LET first == CHOOSE a \in rows :
                         \A b \in rows \ {a} : MemberBefore(a, b)
         IN <<first>> \o OrderMembersDesc(rows \ {first})

\* handleGetCollectionRequest: the collection, then one page of its cats
GetCollectionPage(collTbl, members, collectionId, rawCursor, limit) ==
    LET decoded == decodeCollectionCursor(rawCursor)
        matching ==
          {r \in members :
              /\ r.collection_id = collectionId
              /\ decoded.present => CollectionCursorClause(decoded, r)}
        rows == Limit(OrderMembersDesc(matching), limit + 1)
        hasMore == Len(rows) > limit
        visibleRows == IF hasMore THEN SubSeq(rows, 1, limit) ELSE rows
    IN IF decoded.error # Null
       THEN [status |-> 400, ids |-> <<>>, next_cursor |-> NullCursor]
       ELSE IF collectionId \notin DOMAIN collTbl
            THEN [status |-> 404, ids |-> <<>>, next_cursor |-> NullCursor]
       ELSE [status |-> 200,
             ids |-> [i \in 1..Len(visibleRows) |-> visibleRows[i].cat_id],
             next_cursor |-> IF hasMore
                             THEN encodeCollectionCursor(rows[limit + 1])
                             ELSE NullCursor]

BeginWalkCollection(limit, collectionId) ==
    /\ walk = NoWalk
    /\ LET page == GetCollectionPage(collections, collection_cats,
                                     collectionId, NullCursor, limit)
       IN /\ page.status = 200
          /\ walk' = [listing |-> "collection_cats", limit |-> limit,
                      filter |-> Null, coll |-> collectionId,
                      pages |-> <<page.ids>>, cursor |-> page.next_cursor]
    /\ UNCHANGED <<storeVars, req, burst, hist, auxVars>>

NextPageCollection ==
    /\ walk.listing = "collection_cats"
    /\ walk.cursor # NullCursor
    /\ LET page == GetCollectionPage(collections, collection_cats, walk.coll,
                                     walk.cursor, walk.limit)
       IN walk' = [walk EXCEPT !.pages = Append(@, page.ids),
                               !.cursor = page.next_cursor]
    /\ UNCHANGED <<storeVars, req, burst, hist, auxVars>>

\* ------------------------------------------------------------------------
\* Listing of follow edges (GET /users/listFollowers, /users/listFollowing)
\* ------------------------------------------------------------------------

\* registered users who follow or are followed in a listed dataset and send
\* no request themselves
Fans == {"fan1", "fan2", "fan3"}

\* the rows of public.follows on the side the listing selects:
\* .eq("followee_username", username) with the follower selected, or
\* .eq("follower_username", username) with the followee selected
FollowRows(edges, times, op, username) ==
    IF op = "listFollowers"
    THEN {[username |-> e[1], followed_at |-> times[e]] :
             e \in {x \in edges : x[2] = username}}
    ELSE {[username |-> e[2], followed_at |-> times[e]] :
             e \in {x \in edges : x[1] = username}}

\* if (options.cursor) query.lt("followed_at", options.cursor);
\* no cursor is 0
FollowCursorClause(cursor, row) ==
    cursor # 0 => row.followed_at < cursor

\* .order("followed_at", {ascending: false}): rows of equal followed_at
\* come in any order, so every such order is a result of the query
RECURSIVE OrderByFollowedAt(_)
OrderByFollowedAt(rows) ==
    IF rows = {} THEN {<<>>}
    ELSE UNION {{<<a>> \o rest : rest \in OrderByFollowedAt(rows \ {a})} :
                  a \in {r \in rows :
                           \A b \in rows : r.followed_at >= b.followed_at}}

\* the results the follows query may have: query.limit(options.limit + 1)
FollowQuery(edges, times, op, username, cursor, limit) ==
    LET matching == {r \in FollowRows(edges, times, op, username) :
                        FollowCursorClause(cursor, r)}
    IN {Limit(ordered, limit + 1) : ordered \in OrderByFollowedAt(matching)}

\* listFollowers / listFollowing from the query result to the payload:
\* hasMore, the slice, nextCursor (null is 0)
FollowPage(data, limit) ==
    LET hasMore == Len(data) > limit
        slice == IF hasMore THEN SubSeq(data, 1, limit) ELSE data
    IN [rows |-> slice,
        nextCursor |-> IF hasMore /\ Len(slice) > 0
                       THEN slice[Len(slice)].followed_at ELSE 0]

\* parseFollowCursor: no cursor (0) is the first page; else
\* new Date(Date.parse(rawCursor)).toISOString(), which keeps the
\* milliseconds of the timestamp and drops what is finer
parseFollowCursor(rawCursor) ==
    IF rawCursor = 0 THEN [cursor |-> 0, error |-> Null]
    ELSE IF rawCursor < 0 THEN [cursor |-> 0, error |-> "Invalid cursor"]
    ELSE [cursor |-> rawCursor - ((rawCursor - 1) % TicksPerMs),
          error |-> Null]

\* next_cursor as the client holds it
FollowCursor(t) ==
    IF t = 0 THEN NullCursor ELSE [enc |-> "ts", created_at |-> t, id |-> 0]

\* a client starts walking its followers or its following: no cursor
BeginWalkFollows(limit, username, op) ==
    /\ walk = NoWalk
    /\ \E data \in FollowQuery(follows, followed_at, op, username, 0, limit) :
          LET page == FollowPage(data, limit)
          IN walk' = [listing |-> op, limit |-> limit, filter |-> username,
                      coll |-> 0,
                      pages |-> <<[i \in 1..Len(page.rows) |->
                                     page.rows[i].username]>>,
                      cursor |-> FollowCursor(page.nextCursor)]
    /\ UNCHANGED <<storeVars, req, burst, hist, auxVars>>

\* the client passes the next_cursor it received back unmodified
NextPageFollows ==
    /\ walk.listing \in ListOps
    /\ walk.cursor # NullCursor
    /\ \E data \in FollowQuery(follows, followed_at, walk.listing,
                               walk.filter,
                               parseFollowCursor(walk.cursor.created_at).cursor,
                               walk.limit) :
          LET page == FollowPage(data, walk.limit)
          IN walk' = [walk EXCEPT
                        !.pages = Append(@, [i \in 1..Len(page.rows) |->
                                               page.rows[i].username]),
                        !.cursor = FollowCursor(page.nextCursor)]
    /\ UNCHANGED <<storeVars, req, burst, hist, auxVars>>

\* a fixed dataset of follow edges: some fans follow alice, or alice
\* follows some fans, each edge with its followed_at; bob follows alice.
\* The counters hold the number of edges.
InitFollows ==
    /\ \E fans \in SUBSET Fans, t \in [Fans -> Times], inward \in BOOLEAN :
          /\ follows = {<<"bob", "alice">>} \cup
                 {IF inward THEN <<f, "alice">> ELSE <<"alice", f>> :
                     f \in fans}
          /\ followed_at =
                 [e \in follows |->
                    IF e = <<"bob", "alice">> THEN 1
                    ELSE IF inward THEN t[e[1]] ELSE t[e[2]]]
    /\ session_token =
          [u \in Users \cup Fans |->
             IF u = "alice" THEN "ta" ELSE IF u = "bob" THEN "tb"
             ELSE "t-" \o u]
    /\ follower_count =
          [u \in Users \cup Fans |->
             Cardinality({e \in follows : e[2] = u})]
    /\ following_count =
          [u \in Users \cup Fans |->
             Cardinality({e \in follows : e[1] = u})]
    /\ likesTbl = {}
    /\ accounts = [u \in Users \cup Fans |->
                     [email |-> u \o "@x", password_hash |-> "h-" \o u]]
    /\ cats = <<>>
    /\ collections = <<>>
    /\ collection_cats = {}
    /\ comments = <<>>
    /\ post_count = [u \in Users \cup Fans |-> 0]

\* any fixed dataset of one of the listed tables: cats, collections, the
\* cats saved to collection 1, or follow edges
InitList ==
    \/ /\ InitStore
       /\ InitHist
       /\ InitAux
       /\ comments = <<>>
       /\ \E ids \in SUBSET RowIds :
             \/ /\ cats \in [ids -> [created_at : Times, username : Users,
                                     likes : {0}]]
                /\ collections = <<>>
                /\ collection_cats = {}
             \/ /\ cats = <<>>
                /\ \E o \in [ids -> Users], t \in [ids -> Times] :
                      collections = [c \in ids |-> NewCollection(o[c], c, t[c])]
                /\ collection_cats = {}
             \/ /\ cats = [c \in ids |-> [created_at |-> 1,
                                          username |-> "alice", likes |-> 0]]
                /\ collections =
                      [c \in {1} |->
                         [NewCollection("alice", c, 1) EXCEPT
                             !.cat_count = Cardinality(ids)]]
                /\ \E t \in [ids -> Times] :
                      collection_cats =
                        {[collection_id |-> 1, cat_id |-> c,
                          added_at |-> t[c]] : c \in ids}
       /\ post_count = PostCounts(cats)
       /\ req = [p \in Procs |-> Idle]
       /\ burst = [snap |-> Null, calls |-> <<>>, over |-> FALSE]
       /\ walk = NoWalk
    \/ /\ InitFollows
       /\ InitHist
       /\ InitAux
       /\ req = [p \in Procs |-> Idle]
       /\ burst = [snap |-> Null, calls |-> <<>>, over |-> FALSE]
       /\ walk = NoWalk

NextList ==
    \/ \E limit \in 1..MaxLimit, usernameFilter \in Users \cup {Null} :
          BeginWalk(limit, usernameFilter)
    \/ NextPage
    \/ \E limit \in 1..MaxLimit, username \in Users :
          BeginWalkCollections(limit, username)
    \/ NextPageCollections
    \/ \E limit \in 1..MaxLimit : BeginWalkCollection(limit, 1)
    \/ NextPageCollection
    \/ \E limit \in 1..MaxLimit, username \in Users, op \in ListOps :
          BeginWalkFollows(limit, username, op)
    \/ NextPageFollows

SpecList == InitList /\ [][NextList]_vars

\* ------------------------------------------------------------------------
\* The follow listings as requests (session, optional username, cursor)
\* ------------------------------------------------------------------------

\* GET /users/listFollowers or /users/listFollowing up to the first store
\* access: session_token, the optional username (Null when absent), a valid
\* limit and an absent (0) or valid cursor
StartFollowList(p, token, target, limit, cursor, op) ==
    /\ Free(p)
    /\ req' = [req EXCEPT ![p] =
                 [Idle EXCEPT !.op = op, !.token = token, !.target = target,
                              !.limit = limit,
                              !.cursor = parseFollowCursor(cursor).cursor,
                              !.pc = "auth"]]
    /\ UNCHANGED <<storeVars, burst, walk, hist, auxVars>>

\* listFollowers / listFollowing: the follows query of the session's user,
\* then hasMore, the slice and nextCursor
FollowListQuery(p) ==
    /\ req[p].pc = "fquery"
    /\ LET r == req[p]
       IN \E data \in FollowQuery(follows, followed_at, r.op, r.user,
                                  r.cursor, r.limit) :
             LET page == FollowPage(data, r.limit)
             IN req' = [req EXCEPT ![p] =
                          [r EXCEPT !.pc = "fguests", !.cnt = Len(data),
                                    !.rows = page.rows,
                                    !.next_cursor = page.nextCursor]]
    /\ UNCHANGED <<storeVars, burst, walk, hist, auxVars>>

\* guestService.fetchGuests for the users of the slice, then the payload
FollowListGuests(p) ==
    /\ req[p].pc = "fguests"
    /\ req' = [req EXCEPT ![p] = Respond(@, 200)]
    /\ UNCHANGED <<storeVars, burst, walk, hist, auxVars>>

\* listings of followers and of following, one request after the other:
\* the listings write nothing, so no request sees another one
NextFollowList ==
    \/ \E token \in Tokens, target \in Usernames \cup {Null},
          limit \in {1, MaxLimit}, cursor \in {0, MaxTime}, op \in ListOps :
            StartFollowList("r1", token, target, limit, cursor, op)
    \/ Auth("r1")
    \/ FollowListQuery("r1")
    \/ FollowListGuests("r1")
    \/ StoreError("r1", {"auth", "fquery", "fguests"})

\* a fixed dataset of follow edges, no request yet
InitFollowList ==
    /\ InitFollows
    /\ InitHist
    /\ InitAux
    /\ req = [p \in Procs |-> Idle]
    /\ burst = [snap |-> Null, calls |-> <<>>, over |-> FALSE]
    /\ walk = NoWalk

SpecFollowList == InitFollowList /\ [][NextFollowList]_vars

\* ------------------------------------------------------------------------
\* Failures and the error message of the response
\* ------------------------------------------------------------------------

\* handleFollowUserRequest / handleCatLikeMutation up to the first store
\* access, for a request whose failures are observed
StartObserved(p, token, target, action) ==
    /\ Free(p)
    /\ req' = [req EXCEPT ![p] =
                 [Idle EXCEPT !.op = action, !.token = token,
                              !.target = target, !.pc = "auth",
                              !.observe = TRUE]]
    /\ UNCHANGED <<storeVars, burst, walk, hist, auxVars>>

\* a call of the handler rejects with something that is no HttpError (the
\* request to the store fails, a value is not what the code expects): the
\* catch block of the route hands it to handleRouteError
Unexpected(p, at) ==
    /\ req[p].pc \in at
    /\ \E m \in StorageMessages :
          LET err == [kind |-> "Error", message |-> m, status |-> 0]
          IN req' = [req EXCEPT ![p] =
                       Respond([@ EXCEPT !.thrown = err],
                               handleRouteError(err).status)]
    /\ burst' = NoteResponse(req'[p])
    /\ UNCHANGED <<storeVars, walk, hist, auxVars>>

\* follow, unfollow, like and unlike with every failure of every store
\* call, one request after the other
NextErrors ==
    \/ \E token \in Tokens, target \in Usernames,
          action \in {"follow", "unfollow"} :
            StartObserved("r1", token, target, action)
    \/ \E token \in Tokens, catId \in CatIds, action \in {"like", "unlike"} :
            StartObserved("r1", token, catId, action)
    \/ Auth("r1")
    \/ LookupTarget("r1")
    \/ FollowRpc("r1")
    \/ EnsureCatExists("r1")
    \/ WriteLikeEdge("r1")
    \/ RefreshCount("r1")
    \/ RefreshPersist("r1")
    \/ StoreError("r1", {"auth", "lookup", "exists", "edge", "count",
                         "persist"})
    \/ Unexpected("r1", {"auth", "lookup", "rpc", "exists", "edge", "count",
                         "persist"})

SpecErrors == Init /\ [][NextErrors]_vars

\* ------------------------------------------------------------------------
\* A caller that sends a failed mutation again until it succeeds
\* ------------------------------------------------------------------------

\* the caller sends a call: its first one, or the next after a success
StartRetried(p, token, target, action) ==
    /\ req[p].pc = "idle" \/ (req[p].pc = "done" /\ req[p].status = 200)
    /\ StartObserved(p, token, target, action)

\* the caller sends the call that was answered 500 again, unchanged
Retry(p) ==
    /\ req[p].pc = "done"
    /\ req[p].status = 500
    /\ req[p].observe
    /\ req' = [req EXCEPT ![p] =
                 [Idle EXCEPT !.op = req[p].op, !.token = req[p].token,
                              !.target = req[p].target, !.pc = "auth",
                              !.observe = TRUE,
                              !.retries = IF req[p].retries < MaxRetries
                                          THEN req[p].retries + 1
                                          ELSE MaxRetries]]
    /\ UNCHANGED <<storeVars, burst, walk, hist, auxVars>>

\* the steps of the handlers of slot p, without the failures
MutationSteps(p) ==
    \/ Auth(p)
    \/ LookupTarget(p)
    \/ FollowRpc(p)
    \/ EnsureCatExists(p)
    \/ WriteLikeEdge(p)
    \/ RefreshCount(p)
    \/ RefreshPersist(p)

\* alice (slot r1) follows or unfollows bob, likes or unlikes cat 1 and
\* sends a call again while it is answered 500; the store fails her calls
\* at most MaxRetries times. Meanwhile bob (slot r2) sends one call of his
\* own, which is about another edge.
NextRetry ==
    \/ \E action \in {"follow", "unfollow"} :
          StartRetried("r1", "ta", "bob", action)
    \/ \E action \in {"like", "unlike"} :
          StartRetried("r1", "ta", 1, action)
    \/ Retry("r1")
    \/ MutationSteps("r1")
    \/ /\ req["r1"].retries < MaxRetries
       /\ StoreError("r1", {"auth", "lookup", "exists", "edge", "count",
                            "persist"})
    \/ /\ req["r2"].pc = "idle"
       /\ \/ \E action \in {"follow", "unfollow"} :
                StartFollow("r2", "tb", "alice", action, FALSE, FALSE)
          \/ \E action \in {"like", "unlike"} :
                StartLike("r2", "tb", 1, action, FALSE, FALSE)
    \/ MutationSteps("r2")
    \/ StoreError("r2", {"auth", "lookup", "exists", "edge", "count",
                         "persist"})

\* a request in flight is served, a call answered 500 is sent again, and
\* the rpc of a follow that keeps being sent is answered in the end
FairRetry ==
    /\ WF_vars(MutationSteps("r1") \/ Retry("r1"))
    /\ WF_vars(MutationSteps("r2"))
    /\ SF_vars(FollowRpc("r1") /\ req'["r1"].status = 200)

SpecRetry == Init /\ [][NextRetry]_vars /\ FairRetry

\* ------------------------------------------------------------------------
\* Page cursors as strings: encodeCursor / decodeCursor of the cat listings,
\* encodeCollectionListCursor / decodeCollectionListCursor and
\* encodeCollectionCursor / decodeCollectionCursor
\* ------------------------------------------------------------------------

\* A text is a sequence of code points. A base64 string is a sequence of
\* the values of its characters: 0..63 for the characters of the alphabet,
\* 64 for "=", 65 for a space and 66 for a character that is none of these.

\* the names of the two key fields of a cursor payload, as texts:
\* "created_at" and "id", or "added_at" and "cat_id"
KeyFields(kind) ==
    IF kind = "collection_cats"
    THEN [k1 |-> <<97, 100, 100, 101, 100, 95, 97, 116>>,
          k2 |-> <<99, 97, 116, 95, 105, 100>>]
    ELSE [k1 |-> <<99, 114, 101, 97, 116, 101, 100, 95, 97, 116>>,
          k2 |-> <<105, 100>>]

\* a hexadecimal digit, lower case
HexDigit(n) == IF n < 10 THEN 48 + n ELSE 87 + n

\* characters written as they are, the quote and the backslash too
QuoteJSONChar_noEscape(c) == <<c>>

\* JSON.stringify of one character of a string: the quote and the backslash
\* are escaped, control characters become \b \t \n \f \r or \u00xx
QuoteJSONChar(c) ==
    CASE c = 34 -> <<92, 34>>
      [] c = 92 -> <<92, 92>>
      [] c = 8 -> <<92, 98>>
      [] c = 9 -> <<92, 116>>
      [] c = 10 -> <<92, 110>>
      [] c = 12 -> <<92, 102>>
      [] c = 13 -> <<92, 114>>
      [] c < 32 /\ c \notin {8, 9, 10, 12, 13} ->
           <<92, 117, 48, 48, HexDigit(c \div 16), HexDigit(c % 16)>>
      [] OTHER -> <<c>>

RECURSIVE QuoteJSONString(_)
\* JSON.stringify of a string, from after its opening quote: the characters
\* escaped, then the closing quote
QuoteJSONString(str) ==
    IF str = <<>> THEN <<34>>
    ELSE QuoteJSONChar(Head(str)) \o QuoteJSONString(Tail(str))

\* JSON.stringify({k1: v1, k2: v2}) with both values strings
JSON_stringify(kind, payload) ==
    <<123, 34>> \o QuoteJSONString(KeyFields(kind).k1) \o <<58, 34>>
       \o QuoteJSONString(payload.k1) \o <<44, 34>>
       \o QuoteJSONString(KeyFields(kind).k2) \o <<58, 34>>
       \o QuoteJSONString(payload.k2) \o <<125>>

RECURSIVE TextEncoder_encode(_)
\* new TextEncoder().encode(input): the UTF-8 bytes of the text
TextEncoder_encode(input) ==
    IF input = <<>> THEN <<>>
    ELSE LET c == Head(input)
             bytes ==
               IF c < 128 THEN <<c>>
               ELSE IF c < 2048 THEN <<192 + (c \div 64), 128 + (c % 64)>>
               ELSE <<224 + (c \div 4096), 128 + ((c \div 64) % 64),
                      128 + (c % 64)>>
         IN bytes \o TextEncoder_encode(Tail(input))

RECURSIVE btoa(_)
\* btoa of the binary string of the bytes: three bytes to four characters,
\* the last group padded with "="
btoa(bytes) ==
    CASE Len(bytes) = 0 -> <<>>
      [] Len(bytes) = 1 ->
           <<bytes[1] \div 4, (bytes[1] % 4) * 16, 64, 64>>
      [] Len(bytes) = 2 ->
           <<bytes[1] \div 4, (bytes[1] % 4) * 16 + (bytes[2] \div 16),
             (bytes[2] % 16) * 4, 64>>
      [] OTHER ->
           <<bytes[1] \div 4, (bytes[1] % 4) * 16 + (bytes[2] \div 16),
             (bytes[2] % 16) * 4 + (bytes[3] \div 64), bytes[3] % 64>>
              \o btoa(SubSeq(bytes, 4, Len(bytes)))

\* base64Encode: btoa of the UTF-8 bytes of the input
base64EncodeText(input) == btoa(TextEncoder_encode(input))

\* encodeCursor, encodeCollectionListCursor, encodeCollectionCursor:
\* base64Encode(JSON.stringify({k1: row.k1, k2: row.k2}))
encodeCursorText(kind, row) ==
    base64EncodeText(JSON_stringify(kind, [k1 |-> row.k1, k2 |-> row.k2]))

RECURSIVE SextetsToBytes(_)
\* the bytes of a sequence of alphabet characters; the bits left over in
\* the last group are dropped
SextetsToBytes(data) ==
    CASE Len(data) < 2 -> <<>>
      [] Len(data) = 2 -> <<data[1] * 4 + (data[2] \div 16)>>
      [] Len(data) = 3 ->
           <<data[1] * 4 + (data[2] \div 16),
             (data[2] % 16) * 16 + (data[3] \div 4)>>
      [] OTHER ->
           <<data[1] * 4 + (data[2] \div 16),
             (data[2] % 16) * 16 + (data[3] \div 4),
             (data[3] % 4) * 64 + data[4]>>
              \o SextetsToBytes(SubSeq(data, 5, Len(data)))

\* atob: white space is removed, then one or two "=" at the end of a string
\* whose length is a multiple of four; what is left must be alphabet
\* characters and not one more than a multiple of four
atob(encoded) ==
    LET data == SelectSeq(encoded, LAMBDA c : c # 65)
        n == Len(data)
        unpadded ==
          IF n > 0 /\ n % 4 = 0 /\ data[n] = 64
          THEN IF data[n - 1] = 64 THEN SubSeq(data, 1, n - 2)
                                   ELSE SubSeq(data, 1, n - 1)
          ELSE data
    IN IF \/ Len(unpadded) % 4 = 1
          \/ \E i \in DOMAIN unpadded : unpadded[i] > 63
       THEN [ok |-> FALSE, bytes |-> <<>>]
       ELSE [ok |-> TRUE, bytes |-> SextetsToBytes(unpadded)]

\* a continuation byte of UTF-8
IsContinuation(bytes, i) ==
    i <= Len(bytes) /\ bytes[i] >= 128 /\ bytes[i] < 192

RECURSIVE TextDecoder_decode(_)
\* new TextDecoder().decode(bytes): UTF-8, a byte that starts no well-formed
\* sequence becomes U+FFFD
TextDecoder_decode(bytes) ==
    IF bytes = <<>> THEN <<>>
    ELSE LET b == bytes[1]
             n == Len(bytes)
         IN CASE b < 128 ->
                   <<b>> \o TextDecoder_decode(Tail(bytes))
              [] b >= 194 /\ b < 224 /\ IsContinuation(bytes, 2) ->
                   <<(b - 192) * 64 + (bytes[2] - 128)>>
                      \o TextDecoder_decode(SubSeq(bytes, 3, n))
              [] /\ b >= 224 /\ b < 240
                 /\ IsContinuation(bytes, 2) /\ IsContinuation(bytes, 3)
                 /\ (b = 224 => bytes[2] >= 160)
                 /\ (b = 237 => bytes[2] < 160) ->
                   <<(b - 224) * 4096 + (bytes[2] - 128) * 64
                        + (bytes[3] - 128)>>
                      \o TextDecoder_decode(SubSeq(bytes, 4, n))
              [] OTHER ->
                   <<65533>> \o TextDecoder_decode(Tail(bytes))

\* base64Decode: the text of the bytes atob gives; atob throws on a string
\* that is not base64
base64DecodeText(encoded) ==
    LET binary == atob(encoded)
    IN [ok |-> binary.ok, text |-> TextDecoder_decode(binary.bytes)]

\* JSON.parse, for the texts the cursors of this model decode to: an
\* object whose members are strings, integers, null, true or false, or one
\* such value alone. A parse gives [ok, type, value, members, next]: next
\* is the position after what was read.
ParseFailed ==
    [ok |-> FALSE, type |-> "undefined", value |-> <<>>, members |-> <<>>,
     next |-> 0]

Parsed(type, value, members, next) ==
    [ok |-> TRUE, type |-> type, value |-> value, members |-> members,
     next |-> next]

CharAt(text, i) == IF i >= 1 /\ i <= Len(text) THEN text[i] ELSE 0

RECURSIVE SkipWs(_, _)
\* past the white space of JSON: space, tab, line feed, carriage return
SkipWs(text, i) ==
    IF CharAt(text, i) \in {32, 9, 10, 13} THEN SkipWs(text, i + 1) ELSE i

\* the value of a hexadecimal digit, 16 for any other character
HexValue(c) ==
    CASE c >= 48 /\ c <= 57 -> c - 48
      [] c >= 97 /\ c <= 102 -> c - 87
      [] c >= 65 /\ c <= 70 -> c - 55
      [] OTHER -> 16

\* the character a one-letter escape stands for, 0 if there is none
Unescape(e) ==
    CASE e \in {34, 92, 47} -> e
      [] e = 98 -> 8
      [] e = 102 -> 12
      [] e = 110 -> 10
      [] e = 114 -> 13
      [] e = 116 -> 9
      [] OTHER -> 0

RECURSIVE ScanString(_, _, _)
\* a JSON string from after its opening quote to its closing quote
ScanString(text, i, acc) ==
    LET c == CharAt(text, i)
        e == CharAt(text, i + 1)
        hex == [k \in 1..4 |-> HexValue(CharAt(text, i + 1 + k))]
    IN CASE i > Len(text) \/ c < 32 -> ParseFailed
         [] i <= Len(text) /\ c = 34 -> Parsed("string", acc, <<>>, i + 1)
         [] i <= Len(text) /\ c = 92 ->
              IF Unescape(e) # 0
              THEN ScanString(text, i + 2, Append(acc, Unescape(e)))
              ELSE IF e = 117 /\ \A k \in 1..4 : hex[k] < 16
              THEN ScanString(text, i + 6,
                              Append(acc, hex[1] * 4096 + hex[2] * 256
                                             + hex[3] * 16 + hex[4]))
              ELSE ParseFailed
         [] OTHER -> ScanString(text, i + 1, Append(acc, c))

RECURSIVE SkipDigits(_, _)
SkipDigits(text, i) ==
    IF CharAt(text, i) >= 48 /\ CharAt(text, i) <= 57
    THEN SkipDigits(text, i + 1) ELSE i

\* a string, an integer, or one of the literals null, true, false
ParseValue(text, i) ==
    LET c == CharAt(text, i)
        d == IF c = 45 THEN i + 1 ELSE i
    IN CASE c = 34 -> ScanString(text, i + 1, <<>>)
         [] c # 34 /\ CharAt(text, d) = 48 ->
              Parsed("number", <<>>, <<>>, d + 1)
         [] c # 34 /\ CharAt(text, d) >= 49 /\ CharAt(text, d) <= 57 ->
              Parsed("number", <<>>, <<>>, SkipDigits(text, d))
         [] i + 3 <= Len(text)
               /\ SubSeq(text, i, i + 3) = <<110, 117, 108, 108>> ->
              Parsed("null", <<>>, <<>>, i + 4)
         [] i + 3 <= Len(text)
               /\ SubSeq(text, i, i + 3) = <<116, 114, 117, 101>> ->
              Parsed("boolean", <<>>, <<>>, i + 4)
         [] i + 4 <= Len(text)
               /\ SubSeq(text, i, i + 4) = <<102, 97, 108, 115, 101>> ->
              Parsed("boolean", <<>>, <<>>, i + 5)
         [] OTHER -> ParseFailed

RECURSIVE ParseMembers(_, _, _)
\* the members of an object from its first key to its closing brace
ParseMembers(text, i, acc) ==
    LET k == SkipWs(text, i)
        key == IF CharAt(text, k) = 34 THEN ScanString(text, k + 1, <<>>)
               ELSE ParseFailed
        colon == SkipWs(text, key.next)
        val == IF key.ok /\ CharAt(text, colon) = 58
               THEN ParseValue(text, SkipWs(text, colon + 1))
               ELSE ParseFailed
        after == SkipWs(text, val.next)
        members == Append(acc, [key |-> key.value, type |-> val.type,
                                value |-> val.value])
    IN IF ~val.ok THEN ParseFailed
       ELSE IF CharAt(text, after) = 44
       THEN ParseMembers(text, after + 1, members)
       ELSE IF CharAt(text, after) = 125
       THEN Parsed("object", <<>>, members, after + 1)
       ELSE ParseFailed

\* JSON.parse(json); a text that is not JSON throws
JSON_parse(json) ==
    LET i == SkipWs(json, 1)
        first == SkipWs(json, i + 1)
        parsed ==
          IF CharAt(json, i) = 123
          THEN IF CharAt(json, first) = 125
               THEN Parsed("object", <<>>, <<>>, first + 1)
               ELSE ParseMembers(json, i + 1, <<>>)
          ELSE ParseValue(json, i)
    IN IF parsed.ok /\ SkipWs(json, parsed.next) = Len(json) + 1
       THEN parsed ELSE ParseFailed

\* the member's value taken whatever its type
StringMember_anyType(parsed, name) ==
    LET at == {m \in DOMAIN parsed.members : parsed.members[m].key = name}
        last == CHOOSE m \in at : \A o \in at : o <= m
    IN IF at # {}
       THEN [isString |-> TRUE, value |-> parsed.members[last].value]
       ELSE [isString |-> FALSE, value |-> <<>>]

\* typeof parsed[name] === "string", and the value: the last member of
\* that name counts
StringMember(parsed, name) ==
    LET at == {m \in DOMAIN parsed.members : parsed.members[m].key = name}
        last == CHOOSE m \in at : \A o \in at : o <= m
    IN IF at # {} /\ parsed.members[last].type = "string"
       THEN [isString |-> TRUE, value |-> parsed.members[last].value]
       ELSE [isString |-> FALSE, value |-> <<>>]

\* F of the value of x, with x evaluated once
Bind(x, F(_)) == CHOOSE r \in {F(v) : v \in {x}} : TRUE

\* decodeCursor, decodeCollectionListCursor, decodeCollectionCursor: no
\* cursor for an absent or empty string; "Invalid cursor" when atob or
\* JSON.parse throws, when reading a field of null throws, and when one of
\* the two key fields is not a string
decodeCursorText(kind, rawCursor) ==
    LET invalid == [present |-> FALSE, k1 |-> <<>>, k2 |-> <<>>,
                    error |-> "Invalid cursor"]
        Fields(parsed) ==
          LET k1 == StringMember(parsed, KeyFields(kind).k1)
              k2 == StringMember(parsed, KeyFields(kind).k2)
          IN IF ~parsed.ok \/ parsed.type = "null" THEN invalid
             ELSE IF k1.isString /\ k2.isString
             THEN [present |-> TRUE, k1 |-> k1.value, k2 |-> k2.value,
                   error |-> Null]
             ELSE invalid
        Parse(json) ==
          IF ~json.ok THEN invalid ELSE Bind(JSON_parse(json.text), Fields)
    IN IF rawCursor = <<>>
       THEN [present |-> FALSE, k1 |-> <<>>, k2 |-> <<>>, error |-> Null]
       ELSE Bind(base64DecodeText(rawCursor), Parse)

\* the longest key field of an encoded row
MaxKeyLen == 2

\* the characters of the key fields: "1", the quote, the backslash, and
\* two characters of two and three UTF-8 bytes
KeyChars == {49, 34, 92, 233, 8364}

\* the key field values of the rows
KeyTexts == UNION {[1..n -> KeyChars] : n \in 0..MaxKeyLen}

\* the values of the second key field, the id of the row
IdTexts == {t \in KeyTexts : Len(t) <= 1}

CursorKinds == {"cats", "collections", "collection_cats"}

\* the text of a JSON object whose members are given as texts
RECURSIVE ObjectText(_)
ObjectText(members) ==
    IF members = <<>> THEN <<125>>
    ELSE <<34>> \o QuoteJSONString(Head(members).key) \o <<58>>
            \o Head(members).text
            \o (IF Len(members) > 1 THEN <<44>> ELSE <<>>)
            \o ObjectText(Tail(members))

\* the strings a client sends as cursor that the server did not issue as
\* they are, each with what it is
SentCursors(kind) ==
    LET k == KeyFields(kind)
        one == <<34, 49, 34>>
        issued == encodeCursorText(kind, [k1 |-> <<49>>, k2 |-> <<49>>])
        text == JSON_stringify(kind, [k1 |-> <<49>>, k2 |-> <<49>>])
        Obj(members) == base64EncodeText(<<123>> \o ObjectText(members))
    IN {[case |-> "empty", raw |-> <<>>],
        [case |-> "notBase64", raw |-> <<66>> \o issued],
        [case |-> "notBase64", raw |-> Append(issued, 30)],
        [case |-> "notBase64", raw |-> <<64>> \o issued],
        [case |-> "notJson", raw |-> <<65>>],
        [case |-> "notJson",
         raw |-> base64EncodeText(SubSeq(text, 1, Len(text) - 1))],
        [case |-> "notJson", raw |-> base64EncodeText(Tail(text))],
        [case |-> "notJson", raw |-> btoa(<<255>>)],
        [case |-> "notObject", raw |-> base64EncodeText(one)],
        [case |-> "notObject",
         raw |-> base64EncodeText(<<110, 117, 108, 108>>)],
        [case |-> "notObject", raw |-> base64EncodeText(<<49>>)],
        [case |-> "missingField", raw |-> Obj(<<>>)],
        [case |-> "missingField",
         raw |-> Obj(<<[key |-> k.k1, text |-> one]>>)],
        [case |-> "missingField",
         raw |-> Obj(<<[key |-> k.k2, text |-> one]>>)],
        [case |-> "missingField",
         raw |-> Obj(<<[key |-> <<120>>, text |-> one],
                       [key |-> <<121>>, text |-> one]>>)],
        [case |-> "nonStringField",
         raw |-> Obj(<<[key |-> k.k1, text |-> one],
                       [key |-> k.k2, text |-> <<49>>]>>)],
        [case |-> "nonStringField",
         raw |-> Obj(<<[key |-> k.k1, text |-> <<110, 117, 108, 108>>],
                       [key |-> k.k2, text |-> one]>>)],
        [case |-> "valid",
         raw |-> SelectSeq(issued, LAMBDA c : c # 64)],
        [case |-> "valid", raw |-> <<65>> \o issued],
        [case |-> "valid",
         raw |-> Obj(<<[key |-> k.k2, text |-> one],
                       [key |-> <<120>>, text |-> <<49>>],
                       [key |-> k.k1, text |-> one]>>)]}

\* the server gives a page its next_cursor: the encoded key fields of a
\* row, which the client sends back unchanged
IssueCursor(kind, row) ==
    /\ cursorIo.stage = "none"
    /\ cursorIo' = [cursorIo EXCEPT !.stage = "sent", !.kind = kind,
                                    !.case = "issued", !.row = row,
                                    !.raw = encodeCursorText(kind, row)]
    /\ UNCHANGED <<storeVars, req, burst, walk, hist, atomicRun, avatarSt>>

\* a client sends a cursor string of its own making
SendCursor(kind, sent) ==
    /\ cursorIo.stage = "none"
    /\ cursorIo' = [cursorIo EXCEPT !.stage = "sent", !.kind = kind,
                                    !.case = sent.case, !.raw = sent.raw]
    /\ UNCHANGED <<storeVars, req, burst, walk, hist, atomicRun, avatarSt>>

\* handleListCatsRequest, handleListCollectionsRequest and
\* handleGetCollectionRequest for a request with valid parameters and no
\* session token, from the decoding of the cursor on: 400 with the
\* decoder's error, else the store is queried, with the cursor clause if a
\* cursor was decoded, and the answer is what the store allows
ListWithCursor ==
    /\ cursorIo.stage = "sent"
    /\ \E decoded \in {decodeCursorText(cursorIo.kind, cursorIo.raw)} :
          IF decoded.error # Null
          THEN cursorIo' = [cursorIo EXCEPT !.stage = "done",
                                            !.decoded = decoded,
                                            !.status = 400,
                                            !.error = decoded.error]
          ELSE \E status \in {200, 500} :
                  cursorIo' = [cursorIo EXCEPT !.stage = "done",
                                               !.decoded = decoded,
                                               !.queried = TRUE,
                                               !.clause = decoded.present,
                                               !.status = status]
    /\ UNCHANGED <<storeVars, req, burst, walk, hist, atomicRun, avatarSt>>

NextCursor ==
    \/ \E kind \in CursorKinds, k1 \in KeyTexts, k2 \in IdTexts :
          IssueCursor(kind, [k1 |-> k1, k2 |-> k2])
    \/ \E kind \in CursorKinds : \E sent \in SentCursors(kind) :
          SendCursor(kind, sent)
    \/ ListWithCursor

SpecCursor == Init /\ [][NextCursor]_vars

\* ------------------------------------------------------------------------
\* Handlers run to completion with no other request in between and no
\* store error
\* ------------------------------------------------------------------------

\* handleFollowUserRequest -> FollowService.followUser / unfollowUser
SeqFollow(st, tok, token, target, action) ==
    LET u == UserByToken(tok, token)
    IN IF u = Null THEN [st |-> st, status |-> 401]
       ELSE IF u = target THEN [st |-> st, status |-> 400]
       ELSE IF action = "follow" /\ target \notin DOMAIN tok
            THEN [st |-> st, status |-> 404]
       ELSE [st |-> IF action = "follow"
                    THEN follow_user_with_counts(st, u, target)
                    ELSE unfollow_user_with_counts(st, u, target),
             status |-> 200]

\* handleCatLikeMutation -> CatLikeService.likeCat / unlikeCat
SeqLike(st, tok, token, catId, action) ==
    LET u == UserByToken(tok, token)
        tbl == IF action = "like" THEN UpsertLike(st.likesTbl, catId, u)
                                  ELSE DeleteLike(st.likesTbl, catId, u)
        totalLikes == CountLikes(tbl, catId)
    IN IF u = Null THEN [st |-> st, status |-> 401, likes |-> 0]
       ELSE IF catId \notin DOMAIN st.cats
            THEN [st |-> st, status |-> 404, likes |-> 0]
       ELSE [st |-> [st EXCEPT !.likesTbl = tbl,
                               !.cats = PersistLikes(@, catId, totalLikes)],
             status |-> 200, likes |-> totalLikes]

\* CollectionService.addCatToCollection / removeCatFromCollection
SeqMember(tok, catTbl, colls, members, token, collectionId, catId, action) ==
    LET u == UserByToken(tok, token)
        out == IF action = "addCat"
               THEN add_cat_to_collection_with_count(
                       colls, members, collectionId, catId, u, 1)
               ELSE remove_cat_from_collection_with_count(
                       colls, members, collectionId, catId, u)
        unchanged == [collections |-> colls, collection_cats |-> members,
                      cat_count |-> 0]
    IN IF u = Null THEN unchanged @@ [status |-> 401]
       ELSE IF collectionId \notin DOMAIN colls
            THEN unchanged @@ [status |-> 404]
       ELSE IF colls[collectionId].owner_username # u
            THEN unchanged @@ [status |-> 403]
       ELSE IF catId \notin DOMAIN catTbl
            THEN unchanged @@ [status |-> 404]
       ELSE IF ~out.found THEN unchanged @@ [status |-> 404]
       ELSE [collections |-> out.collections,
             collection_cats |-> out.collection_cats,
             cat_count |-> out.cat_count, status |-> 200]

\* ------------------------------------------------------------------------
\* The like edge and the likes column written by the atomic routines
\* like_cat_with_count / unlike_cat_with_count, beside CatLikeService
\* ------------------------------------------------------------------------

\* update cats set likes = coalesce(likes, 0) + n where id = c returning
\* likes, with a blind 1 in place of count(inserted)
like_cat_with_count_blind(tbl, likes, p_cat_id, p_username) ==
    [likesTbl |-> tbl \cup {<<p_cat_id, p_username>>},
     likes |-> IF p_cat_id \in DOMAIN likes
               THEN [likes EXCEPT ![p_cat_id] = @ + 1] ELSE likes,
     delta |-> 1,
     returned |-> IF p_cat_id \in DOMAIN likes THEN likes[p_cat_id] + 1
                  ELSE -1]

\* like_cat_with_count: insert .. on conflict do nothing returning 1, then
\* likes moves up by count(inserted) and is returned; no cat of that id, no
\* row is returned (-1)
like_cat_with_count(tbl, likes, p_cat_id, p_username) ==
    LET inserted == IF <<p_cat_id, p_username>> \in tbl THEN 0 ELSE 1
    IN [likesTbl |-> tbl \cup {<<p_cat_id, p_username>>},
        likes |-> IF p_cat_id \in DOMAIN likes
                  THEN [likes EXCEPT ![p_cat_id] = @ + inserted] ELSE likes,
        delta |-> inserted,
        returned |-> IF p_cat_id \in DOMAIN likes
                     THEN likes[p_cat_id] + inserted ELSE -1]

\* unlike_cat_with_count: delete .. returning 1, then likes moves down by
\* count(deleted), floored at 0 by greatest(.., 0), and is returned
unlike_cat_with_count(tbl, likes, p_cat_id, p_username) ==
    LET deleted == IF <<p_cat_id, p_username>> \in tbl THEN 1 ELSE 0
    IN [likesTbl |-> tbl \ {<<p_cat_id, p_username>>},
        likes |-> IF p_cat_id \in DOMAIN likes
                  THEN [likes EXCEPT ![p_cat_id] = Max(@ - deleted, 0)]
                  ELSE likes,
        delta |-> deleted,
        returned |-> IF p_cat_id \in DOMAIN likes
                     THEN Max(likes[p_cat_id] - deleted, 0) ELSE -1]

\* likeCat / unlikeCat with the upsert or delete and refreshCatLikeCount
\* replaced by one call of the routine, after getUserBySessionToken and
\* ensureCatExists as in CatLikeService
AtomicLike(run, tok, catTbl, token, catId, action) ==
    LET u == UserByToken(tok, token)
        out == IF action = "like"
               THEN like_cat_with_count(run.likesTbl, run.likes, catId, u)
               ELSE unlike_cat_with_count(run.likesTbl, run.likes, catId, u)
    IN IF u = Null
       THEN [run EXCEPT !.action = action, !.status = 401, !.returned = 0,
                        !.delta = 0]
       ELSE IF catId \notin DOMAIN catTbl
       THEN [run EXCEPT !.action = action, !.status = 404, !.returned = 0,
                        !.delta = 0]
       ELSE [run EXCEPT !.action = action, !.status = 200,
                        !.likesTbl = out.likesTbl, !.likes = out.likes,
                        !.returned = out.returned, !.delta = out.delta]

\* one call of likeCat or unlikeCat run to completion by CatLikeService on
\* the store, and the same call run through the atomic routine on the
\* tables of atomicRun
LikeBothWays(token, catId, action) ==
    LET served == SeqLike(Store, session_token, token, catId, action)
        run == AtomicLike(atomicRun, session_token, cats, token, catId,
                          action)
    IN /\ likesTbl' = served.st.likesTbl
       /\ cats' = served.st.cats
       /\ atomicRun' = [run EXCEPT !.servedStatus = served.status,
                                   !.servedLikes = served.likes]
       /\ UNCHANGED <<session_token, follows, follower_count,
                      following_count, extraVars, req, burst, walk, hist,
                      cursorIo, avatarSt>>

\* the two registered users and the cats of CatIds; any set of like rows,
\* with likes the number of like rows of the cat; both ways start from the
\* same tables
InitBothWays ==
    /\ followed_at = <<>>
    /\ session_token = [u \in Users |-> IF u = "alice" THEN "ta" ELSE "tb"]
    /\ follows = {}
    /\ follower_count = [u \in Users |-> 0]
    /\ following_count = [u \in Users |-> 0]
    /\ accounts = [u \in Users |->
                     [email |-> IF u = "alice" THEN "a@x" ELSE "b@x",
                      password_hash |-> IF u = "alice" THEN "ha" ELSE "hb"]]
    /\ InitHist
    /\ cursorIo = NoCursorIo
    /\ avatarSt = NoAvatars
    /\ \E tbl \in SUBSET (CatIds \X Users) :
          /\ likesTbl = tbl
          /\ cats = [c \in CatIds |->
                       [created_at |-> 1, username |-> "alice",
                        likes |-> CountLikes(tbl, c)]]
          /\ atomicRun = [NoAtomicRun EXCEPT
                            !.likesTbl = tbl,
                            !.likes = [c \in CatIds |-> CountLikes(tbl, c)]]
    /\ post_count = PostCounts(cats)
    /\ collections = <<>>
    /\ collection_cats = {}
    /\ comments = <<>>
    /\ req = [p \in Procs |-> Idle]
    /\ burst = [snap |-> Null, calls |-> <<>>, over |-> FALSE]
    /\ walk = NoWalk

\* a call names a cat of CatIds or the id after them, which no cat has
NextBothWays ==
    \E token \in Tokens, catId \in 1..(MaxCats + 1) :
       \E action \in {"like", "unlike"} :
          LikeBothWays(token, catId, action)

SpecBothWays == InitBothWays /\ [][NextBothWays]_vars

\* ------------------------------------------------------------------------
\* A mutation in flight while a login rotates the caller's token
\* ------------------------------------------------------------------------

\* slot r1 carries mutations called with alice's first token or with the
\* first generated one, slot r2 logins of alice; any interleaving of their
\* steps
NextRotate ==
    \/ \E token \in {"ta", generateSessionToken(1)},
          action \in {"follow", "unfollow"} :
            StartFollow("r1", token, "bob", action, FALSE, FALSE)
    \/ \E token \in {"ta", generateSessionToken(1)},
          action \in {"like", "unlike"} :
            StartLike("r1", token, 1, action, FALSE, FALSE)
    \/ \E token \in {"ta", generateSessionToken(1)},
          action \in {"addCat", "removeCat"} :
            StartCollection("r1", token, 1, 1, Null, action, FALSE)
    \/ StartLogin("r2", "a@x", "ha")
    \/ \E p \in Procs : Auth(p)
    \/ \E p \in Procs : LookupTarget(p)
    \/ \E p \in Procs : FollowRpc(p)
    \/ \E p \in Procs : EnsureCatExists(p)
    \/ \E p \in Procs : WriteLikeEdge(p)
    \/ \E p \in Procs : RefreshCount(p)
    \/ \E p \in Procs : RefreshPersist(p)
    \/ \E p \in Procs : AssertCollectionOwner(p)
    \/ \E p \in Procs : EnsureCollectionCatExists(p)
    \/ \E p \in Procs : CollectionRpc(p)
    \/ \E p \in Procs : LoginSelect(p)
    \/ \E p \in Procs : LoginUpdate(p)

SpecRotate == InitSession /\ [][NextRotate]_vars

\* ------------------------------------------------------------------------
\* UserService.changeAvatar
\* ------------------------------------------------------------------------

\* the most avatar keys generated
MaxAvatars == 2

\* handleChangeAvatarRequest up to the first store access, for a valid
\* image
StartChangeAvatar(p, token) ==
    /\ Free(p)
    /\ avatarSt.nKeys
          + Cardinality({q \in Procs : req[q].pc = "avlookup"}) < MaxAvatars
    /\ req' = [req EXCEPT ![p] =
                 [Idle EXCEPT !.op = "changeAvatar", !.token = token,
                              !.pc = "avlookup"]]
    /\ UNCHANGED <<storeVars, burst, walk, hist, auxVars>>

\* getUserRecordBySessionToken: the row of the token with its r2_avatar,
\* AuthError 401 if there is none; newKey = avatars/<username>/<randomUUID>
AvatarLookup(p) ==
    /\ req[p].pc = "avlookup"
    /\ LET r == req[p]
           u == UserByToken(session_token, r.token)
       IN IF u = Null \/ u \notin Users
          THEN /\ req' = [req EXCEPT ![p] = Respond(r, 401)]
               /\ UNCHANGED avatarSt
          ELSE /\ req' = [req EXCEPT ![p] = [r EXCEPT !.user = u,
                                                      !.pc = "avput"]]
               /\ avatarSt' =
                    [avatarSt EXCEPT
                       !.nKeys = @ + 1,
                       !.local[p] = [old |-> avatarSt.r2_avatar[u],
                                     newKey |-> avatarSt.nKeys + 1]]
    /\ UNCHANGED <<storeVars, burst, walk, hist, cursorIo, atomicRun>>

\* r2Bucket.put(newKey, ..); then record.r2_avatar decides whether the old
\* object is deleted
AvatarPut(p) ==
    /\ req[p].pc = "avput"
    /\ avatarSt' = [avatarSt EXCEPT
                      !.bucket = @ \cup {avatarSt.local[p].newKey}]
    /\ req' = [req EXCEPT ![p].pc = IF avatarSt.local[p].old # 0
                                    THEN "avdelete" ELSE "avupdate"]
    /\ UNCHANGED <<storeVars, burst, walk, hist, cursorIo, atomicRun>>

\* r2Bucket.delete(record.r2_avatar).catch(() => {}): the object is
\* deleted, or the delete fails and the failure is ignored
AvatarDeleteOld(p) ==
    /\ req[p].pc = "avdelete"
    /\ \E deleted \in BOOLEAN :
          avatarSt' = [avatarSt EXCEPT
                         !.bucket = IF deleted
                                    THEN @ \ {avatarSt.local[p].old}
                                    ELSE @]
    /\ req' = [req EXCEPT ![p].pc = "avupdate"]
    /\ UNCHANGED <<storeVars, burst, walk, hist, cursorIo, atomicRun>>

\* users.update({r2_avatar: newKey}).eq("username", ..).select().single();
\* the error branch covers a response lost after the update committed
AvatarUpdate(p) ==
    /\ req[p].pc = "avupdate"
    /\ avatarSt' = [avatarSt EXCEPT
                      !.r2_avatar[req[p].user] = avatarSt.local[p].newKey]
    /\ \E status \in {200, 500} :
          req' = [req EXCEPT ![p] = Respond([req[p] EXCEPT !.eff = "row"],
                                            status)]
    /\ UNCHANGED <<storeVars, burst, walk, hist, cursorIo, atomicRun>>

NextAvatar ==
    \/ \E p \in Procs, token \in Tokens : StartChangeAvatar(p, token)
    \/ \E p \in Procs : AvatarLookup(p)
    \/ \E p \in Procs : AvatarPut(p)
    \/ \E p \in Procs : AvatarDeleteOld(p)
    \/ \E p \in Procs : AvatarUpdate(p)
    \/ \E p \in Procs : StoreError(p, {"avlookup", "avput", "avupdate"})

\* the registered users, each with no avatar or with an avatar whose
\* object is in the bucket
InitAvatar ==
    /\ InitStore
    /\ InitHist
    /\ cursorIo = NoCursorIo
    /\ atomicRun = NoAtomicRun
    /\ \E has \in SUBSET Users :
          LET key == [u \in Users |->
                        IF u \notin has THEN 0
                        ELSE IF u = "alice" THEN MaxAvatars + 1
                        ELSE MaxAvatars + 2]
          IN avatarSt = [NoAvatars EXCEPT
                           !.r2_avatar = key,
                           !.bucket = {key[u] : u \in has}]
    /\ cats = <<>>
    /\ post_count = PostCounts(cats)
    /\ collections = <<>>
    /\ collection_cats = {}
    /\ comments = <<>>
    /\ req = [p \in Procs |-> Idle]
    /\ burst = [snap |-> Null, calls |-> <<>>, over |-> FALSE]
    /\ walk = NoWalk

SpecAvatar == InitAvatar /\ [][NextAvatar]_vars

\* ------------------------------------------------------------------------
\* Page-numbered listing of the comments of a cat (GET /comments/list)
\* ------------------------------------------------------------------------

\* the most comments of a listed dataset
MaxListed == 4

\* the rows of public.comments of a cat, with their id
CommentRows(tbl, catId) ==
    {[comment_id |-> c, comment_at |-> tbl[c].comment_at] :
        c \in {d \in DOMAIN tbl : tbl[d].cat_id = catId}}

\* order("comment_at", desc).order("comment_id", desc)
CommentBefore(a, b) ==
    \/ a.comment_at > b.comment_at
    \/ a.comment_at = b.comment_at /\ a.comment_id > b.comment_id

RECURSIVE OrderComments(_)
OrderComments(rows) ==
    IF rows = {} THEN <<>>
    ELSE LET first == CHOOSE a \in rows :
                         \A b \in rows \ {a} : CommentBefore(a, b)
         IN <<first>> \o OrderComments(rows \ {first})

\* a range that leaves out the row at its end
Range_exclusive(rows, start, end) ==
    IF start >= Len(rows) THEN <<>>
    ELSE SubSeq(rows, start + 1, IF end < Len(rows) THEN end ELSE Len(rows))

\* .range(start, end): the rows from offset start to offset end, both
\* included, as far as there are rows
Range(rows, start, end) ==
    IF start >= Len(rows) THEN <<>>
    ELSE SubSeq(rows, start + 1,
                IF end + 1 < Len(rows) THEN end + 1 ELSE Len(rows))

\* CommentService.listComments for a cat that exists: start, end, the
\* ordered range, hasMore, visibleRows, nextPage (0: null)
listComments(tbl, catId, page, limit) ==
    LET start == (page - 1) * limit
        end == start + limit
        rows == Range(OrderComments(CommentRows(tbl, catId)), start, end)
        hasMore == Len(rows) > limit
    IN [comments |-> IF hasMore THEN SubSeq(rows, 1, limit) ELSE rows,
        nextPage |-> IF hasMore THEN page + 1 ELSE 0]

\* next_page as the client holds it
PageCursor(nextPage) ==
    IF nextPage = 0 THEN NullCursor
    ELSE [enc |-> "page", created_at |-> 0, id |-> nextPage]

\* a client starts walking the comments of a cat: page = 1
BeginWalkComments(limit, catId) ==
    /\ walk = NoWalk
    /\ catId \in DOMAIN cats
    /\ LET out == listComments(comments, catId, 1, limit)
       IN walk' = [listing |-> "comments", limit |-> limit,
                   filter |-> Null, coll |-> catId,
                   pages |-> <<[i \in 1..Len(out.comments) |->
                                  out.comments[i].comment_id]>>,
                   cursor |-> PageCursor(out.nextPage)]
    /\ UNCHANGED <<storeVars, req, burst, hist, auxVars>>

\* the client asks for the page next_page named
NextPageComments ==
    /\ walk.listing = "comments"
    /\ walk.cursor # NullCursor
    /\ LET out == listComments(comments, walk.coll, walk.cursor.id,
                               walk.limit)
       IN walk' = [walk EXCEPT
                     !.pages = Append(@, [i \in 1..Len(out.comments) |->
                                            out.comments[i].comment_id]),
                     !.cursor = PageCursor(out.nextPage)]
    /\ UNCHANGED <<storeVars, req, burst, hist, auxVars>>

NextCommentList ==
    \/ \E limit \in 1..MaxLimit, catId \in CatIds :
          BeginWalkComments(limit, catId)
    \/ NextPageComments

\* the cats of CatIds and any set of up to MaxListed comments, each on the
\* first cat at some time or on the last cat; the set does not change
\* during a walk
InitCommentList ==
    /\ InitStore
    /\ InitHist
    /\ InitAux
    /\ cats = [c \in CatIds |-> [created_at |-> 1, username |-> "alice",
                                 likes |-> 0]]
    /\ post_count = PostCounts(cats)
    /\ collections = <<>>
    /\ collection_cats = {}
    /\ \E ids \in SUBSET (1..MaxListed) :
          \E row \in [ids -> {[cat_id |-> 1, comment_at |-> t] : t \in Times}
                               \cup {[cat_id |-> MaxCats, comment_at |-> 1]}] :
             comments = [c \in ids |->
                           [cat_id |-> row[c].cat_id, username |-> "bob",
                            comment_at |-> row[c].comment_at]]
    /\ req = [p \in Procs |-> Idle]
    /\ burst = [snap |-> Null, calls |-> <<>>, over |-> FALSE]
    /\ walk = NoWalk

SpecCommentList == InitCommentList /\ [][NextCommentList]_vars

\* ------------------------------------------------------------------------
\* Properties
\* ------------------------------------------------------------------------

FollowersOf(x) == {e \in follows : e[2] = x}
FollowingOf(x) == {e \in follows : e[1] = x}

\* the calls of the current burst are on record and every one of them has
\* returned 200
BurstReturnedOk ==
    /\ Quiescent
    /\ ~burst.over
    /\ Len(burst.calls) >= 1

\* the current burst is exactly two overlapping calls op(token, target)
TwoCalls(op, token, target) ==
    /\ BurstReturnedOk
    /\ Len(burst.calls) = 2
    /\ \A i \in 1..2 : /\ burst.calls[i].op = op
                       /\ burst.calls[i].token = token
                       /\ burst.calls[i].target = target

\* C1: in every quiescent state reached by follow/unfollow requests, for
\* every identity X, follower_count(X) is the number of follows rows with
\* followee X and following_count(X) the number with follower X.
C1_FollowCountersEqualEdges ==
    Quiescent =>
        \A x \in Users :
            /\ follower_count[x] = Cardinality(FollowersOf(x))
            /\ following_count[x] = Cardinality(FollowingOf(x))

\* C1 witness: quiescent after a follow and an unfollow both changed the
\* store, with an edge left to count
C1_Witness ==
    /\ Quiescent
    /\ follows # {}
    /\ \E p, q \in Procs :
          /\ req[p].op = "follow" /\ req[p].status = 200
          /\ req[p].eff = "both"
          /\ req[q].op = "unfollow" /\ req[q].status = 200
          /\ req[q].eff = "both"

\* C2 (as claimed): from a quiescent state where likes equals the number of
\* likes rows, overlapping likeCat/unlikeCat requests that all return 200
\* leave likes equal to the number of likes rows of the cat; in particular
\* two users who like the same fresh cat concurrently leave likes = 2.
C2_LikesEqualRows ==
    (/\ BurstReturnedOk
     /\ \A c \in DOMAIN burst.snap.cats :
           burst.snap.cats[c].likes = CountLikes(burst.snap.likesTbl, c))
    => \A c \in DOMAIN cats : cats[c].likes = CountLikes(likesTbl, c)

\* C3 (as claimed): two overlapping likeCat requests of one user on a cat
\* the user had not liked leave one likes row for (cat, user) and the
\* likes counter exactly 1 above its value before the two requests.
C3_DoubleLikeCountsOnce ==
    \A u \in Users, c \in DOMAIN cats :
        (/\ TwoCalls("like", session_token[u], c)
         /\ <<c, u>> \notin burst.snap.likesTbl)
        => /\ <<c, u>> \in likesTbl
           /\ cats[c].likes = burst.snap.cats[c].likes + 1

\* C4 (as claimed): no reachable store state has the edge row of a request
\* inserted or deleted while its counter write is still to come.
C4_EdgeAndCounterTogether ==
    \A p \in Procs : req[p].eff # "edge"

\* C5 (as claimed): a request that returned a storage failure (500) has
\* either changed both the edge and the counter or neither.
C5_FailureLeavesBothOrNeither ==
    \A p \in Procs :
        (req[p].pc = "done" /\ req[p].status = 500) => req[p].eff # "edge"

\* C6: from any state, a follow, unfollow, like or unlike request that
\* succeeds, run a second time with the same arguments, succeeds again and
\* leaves the rows, the counters and the returned likes as the first run did.
C6_SequentialIdempotence ==
    /\ \A token \in Tokens, target \in Usernames,
          action \in {"follow", "unfollow"} :
          LET once == SeqFollow(Store, session_token, token, target, action)
              twice == SeqFollow(once.st, session_token, token, target,
                                 action)
          IN once.status = 200 => twice = once
    /\ \A token \in Tokens, catId \in CatIds, action \in {"like", "unlike"} :
          LET once == SeqLike(Store, session_token, token, catId, action)
              twice == SeqLike(once.st, session_token, token, catId, action)
          IN once.status = 200 => twice = once

\* C6 witness: a follow and a like that found their edge present have both
\* returned 200
C6_Witness ==
    \E p, q \in Procs :
        /\ req[p].op = "follow" /\ req[p].status = 200
        /\ req[p].eff = "none"
        /\ req[q].op = "like" /\ req[q].status = 200 /\ req[q].eff = "none"

\* C7: two overlapping followUser(A, B) requests from a state without the
\* edge A -> B leave the row (A, B) present and following_count(A) and
\* follower_count(B) each exactly 1 above their values before.
C7_ConcurrentFollowCountsOnce ==
    \A a \in Users, b \in Users :
        (/\ TwoCalls("follow", session_token[a], b)
         /\ <<a, b>> \notin burst.snap.follows)
        => /\ <<a, b>> \in follows
           /\ following_count[a] = burst.snap.following_count[a] + 1
           /\ follower_count[b] = burst.snap.follower_count[b] + 1

\* C7 witness: two overlapping follow requests of alice on bob, started
\* without the edge, have both returned 200
C7_Witness ==
    /\ TwoCalls("follow", session_token["alice"], "bob")
    /\ <<"alice", "bob">> \notin burst.snap.follows
    /\ follower_count["bob"] = 1

\* a step of a follow/unfollow request whose target is the caller itself
SelfTargetStep(p) ==
    (/\ req[p].op \in {"follow", "unfollow"}
     /\ req[p].pc = "auth"
     /\ UserByToken(session_token, req[p].token) = req[p].target
     /\ req'[p] # req[p])
    => /\ req'[p].pc = "done"
       /\ req'[p].status \in {400, 500}
       /\ UNCHANGED storeVars

\* C8: a follow or unfollow request whose target is the caller's own
\* username ends with 400 (500 when the session lookup itself fails) and
\* changes no row and no counter; no follows row has follower = followee.
C8_SelfTargetRejected ==
    /\ [](\A e \in follows : e[1] # e[2])
    /\ [](\A p \in Procs :
            req[p].pc \in {"lookup", "rpc"} => req[p].user # req[p].target)
    /\ [][\A p \in Procs : SelfTargetStep(p)]_vars

\* C8 witness: a self-targeted unfollow was answered 400 while edges exist
C8_Witness ==
    /\ follows # {}
    /\ \E p \in Procs :
          req[p].op = "unfollow" /\ req[p].pc = "done" /\ req[p].status = 400

\* the rows a walk's query matches, newest first
WalkMatching ==
    OrderDesc({r \in CatRows(cats) :
                  walk.filter # Null => r.username = walk.filter})

\* the ids a walk has been given so far
WalkSeen ==
    UNION {{walk.pages[i][j] : j \in 1..Len(walk.pages[i])} :
              i \in 1..Len(walk.pages)}

\* C9 (as claimed): a walk from no cursor to a null next_cursor returns
\* every matching row on some page.
C9_NoOmissions ==
    (walk.listing = "cats" /\ walk.cursor = NullCursor)
    => \A i \in 1..Len(WalkMatching) : WalkMatching[i].id \in WalkSeen

\* the listings paged on a (primary value, id) key
DualKeyListings == {"cats", "collections", "collection_cats"}

\* C10 (as claimed): when exactly limit + 1 rows match, the first page is
\* the limit newest rows with a next_cursor, and the page for that cursor
\* is the one remaining oldest row with no next_cursor.
C10_BoundaryPage ==
    (walk.listing = "cats" /\ Len(WalkMatching) = walk.limit + 1)
    => /\ walk.pages[1] =
            [i \in 1..walk.limit |-> WalkMatching[i].id]
       /\ Len(walk.pages) = 1 => walk.cursor # NullCursor
       /\ Len(walk.pages) >= 2 =>
            /\ walk.pages[2] = <<WalkMatching[walk.limit + 1].id>>
            /\ walk.cursor = NullCursor

\* the ids of all pages of the walk, in the order they were returned
RECURSIVE Flatten(_)
Flatten(pages) ==
    IF pages = <<>> THEN <<>> ELSE Head(pages) \o Flatten(Tail(pages))

WalkFlat == Flatten(walk.pages)

\* the sort key (primary value, tie-break id) of a row the walk returned
WalkKey(id) ==
    CASE walk.listing = "cats" ->
           [created_at |-> cats[id].created_at, id |-> id]
      [] walk.listing = "collections" ->
           [created_at |-> collections[id].created_at, id |-> id]
      [] OTHER ->
           LET row == CHOOSE r \in collection_cats :
                         r.collection_id = walk.coll /\ r.cat_id = id
           IN [created_at |-> row.added_at, id |-> id]

\* the first page of the walk's listing asked again with limit l
FirstPageAgain(l) ==
    CASE walk.listing = "cats" ->
           LET page == ListCatsPage(cats, walk.filter, NullCursor, l)
           IN [c \in 1..Len(page.cats) |-> page.cats[c].id]
      [] walk.listing = "collections" ->
           ListCollectionsPage(collections, walk.filter, NullCursor, l).ids
      [] OTHER ->
           GetCollectionPage(collections, collection_cats, walk.coll,
                             NullCursor, l).ids

\* C11: for a fixed dataset, the concatenation of the pages of a cursor
\* walk over a dual-key listing (cats, collections of a user, cats of a
\* collection) is strictly descending in (created_at, id), respectively
\* (added_at, cat_id): no row is returned twice.
C11_PagesStrictlyDescending ==
    walk.listing \in DualKeyListings =>
        \A i, j \in 1..Len(WalkFlat) :
            i < j =>
                LET a == WalkKey(WalkFlat[i])
                    b == WalkKey(WalkFlat[j])
                IN \/ a.created_at > b.created_at
                   \/ a.created_at = b.created_at /\ a.id > b.id

\* C11 witness: a walk over the cats of a collection has ended after two
\* pages, with rows of equal added_at on different pages
C11_Witness ==
    /\ walk.listing = "collection_cats"
    /\ walk.cursor = NullCursor
    /\ Len(walk.pages) = 2
    /\ \E i, j \in 1..Len(WalkFlat) :
          /\ i < j
          /\ WalkKey(WalkFlat[i]).created_at = WalkKey(WalkFlat[j]).created_at

\* C12: any two rows with the same primary sort value are returned in
\* descending tie-break id order, on one page or on two, and a listing call
\* repeated against the unmodified dataset (with any limit) returns the rows
\* it shares with the walk in the same relative order.
C12_TieBreakDeterminism ==
    walk.listing \in DualKeyListings =>
        /\ \A i, j \in 1..Len(WalkFlat) :
              (/\ i < j
               /\ WalkKey(WalkFlat[i]).created_at =
                     WalkKey(WalkFlat[j]).created_at)
              => WalkFlat[i] > WalkFlat[j]
        /\ \A l \in 1..MaxLimit :
              LET again == FirstPageAgain(l)
              IN \A i, j \in 1..Len(WalkFlat), m, n \in 1..Len(again) :
                    (/\ i < j
                     /\ WalkFlat[i] = again[m]
                     /\ WalkFlat[j] = again[n])
                    => m < n

\* C12 witness: two cats with the same created_at were returned on
\* different pages of one walk
C12_Witness ==
    /\ walk.listing = "cats"
    /\ Len(walk.pages) >= 2
    /\ \E i \in 1..Len(walk.pages[1]), j \in 1..Len(walk.pages[2]) :
          cats[walk.pages[1][i]].created_at =
            cats[walk.pages[2][j]].created_at

\* the tokens issued to x so far, by its registration and its logins
IssuedTo(x) == {e[1] : e \in {i \in hist.issued : i[2] = x}}

\* the token t resolves to x and every other token issued to x resolves to
\* nobody
OnlyTokenOf(x, t) ==
    /\ UserByToken(session_token, t) = x
    /\ \A old \in IssuedTo(x) \ {t} : UserByToken(session_token, old) = Null

\* C13 (as claimed): the token returned by the most recent successful
\* login (or registration) of X resolves to X, and every other token issued
\* to X fails resolution, until the next successful login of X.
C13_ReturnedTokenResolves ==
    \A x \in DOMAIN hist.returned :
        hist.returned[x] # Null => OnlyTokenOf(x, hist.returned[x])

\* C13 (amended): the token generated by the most recent login of X whose
\* update reached the store (whether that login then returned 200 or a
\* storage failure) resolves to X, and every token issued to X before it
\* fails resolution (401), until the next login of X reaches its update.
C13_TokenRotation ==
    \A x \in DOMAIN hist.latest : OnlyTokenOf(x, hist.latest[x])

\* C13 witness: alice has logged in twice with success and a request
\* carrying one of her earlier tokens was answered 401
C13_Witness ==
    /\ Cardinality(IssuedTo("alice")) >= 3
    /\ hist.returned["alice"] = hist.latest["alice"]
    /\ \E p, q \in Procs :
          /\ req[p].op = "login" /\ req[p].status = 200
          /\ req[p].user = "alice"
          /\ req[q].op = "profile" /\ req[q].status = 401

\* the frame of the step request p takes, when it is a session step
SessionFrame(p) ==
    /\ (req[p].pc = "auth" /\ req'[p] # req[p]) => UNCHANGED storeVars
    /\ (/\ req[p].op = "login" /\ req[p].pc # "done"
        /\ req'[p].pc = "done" /\ req'[p].status = 401)
       => /\ UNCHANGED storeVars
          /\ req'[p].eff = "none"
    /\ (/\ req[p].op = "login" /\ req[p].pc # "done"
        /\ req'[p].pc = "done" /\ req'[p].status = 200)
       => /\ \E u \in DOMAIN session_token :
                /\ accounts[u].email = req[p].email
                /\ accounts[u].password_hash = req[p].passwd_hash
                /\ session_token'[u] = req'[p].token
                /\ session_token'[u] # session_token[u]
                /\ \A v \in DOMAIN session_token \ {u} :
                      session_token'[v] = session_token[v]
                /\ DOMAIN session_token' = DOMAIN session_token
          /\ UNCHANGED <<follows, follower_count, following_count,
                         likesTbl, cats, extraVars>>

\* C15: resolving a token (with success or not) and a login that fails
\* with AuthError (401) change no stored row; a login that returns 200
\* changes the session_token of exactly one users row, the one matching the
\* credentials, and no other token, counter, edge or row.
C15_SessionFrame == [][\A p \in Procs : SessionFrame(p)]_vars

\* C15 witness: with edges and non-zero counters in the store, a login of
\* alice returned 200, a login returned 401 and bob still holds his token
C15_Witness ==
    /\ follows # {} /\ follower_count["bob"] = 1
    /\ session_token["bob"] = "tb"
    /\ \E p, q \in Procs :
          /\ req[p].op = "login" /\ req[p].status = 200
          /\ req[p].user = "alice"
          /\ req[q].op = "login" /\ req[q].status = 401

\* the identities that hold the token t
HoldersOf(t) == {u \in DOMAIN session_token : session_token[u] = t}

\* C14: in every reachable state each session token value is held by at
\* most one identity, and a token that resolved did so to the identity it
\* was issued to.
C14_TokenExclusivity ==
    /\ \A t \in SessionTokens : Cardinality(HoldersOf(t)) <= 1
    /\ \A p \in Procs :
          (req[p].op = "profile" /\ req[p].status = 200)
          => <<req[p].token, req[p].user>> \in hist.issued

\* C14 witness: alice, bob and a newly registered carol all hold tokens,
\* alice's from a login, and a token resolved to carol
C14_Witness ==
    /\ "carol" \in DOMAIN session_token
    /\ session_token["alice"] # "ta"
    /\ \E p \in Procs :
          /\ req[p].op = "profile" /\ req[p].status = 200
          /\ req[p].user = "carol"

\* the collection request p names exists and p's caller is not its owner
NotOwner(p) ==
    /\ req[p].user # Null
    /\ req[p].target \in DOMAIN collections
    /\ collections[req[p].target].owner_username # req[p].user

\* the step request p takes as a caller who is not the owner
NotOwnerStep(p) ==
    (/\ req[p].op \in {"updateCollection", "addCat", "removeCat"}
     /\ req[p].pc # "done"
     /\ NotOwner(p)
     /\ req'[p] # req[p])
    => /\ req'[p].pc = "done"
       /\ req'[p].status \in {403, 500}
       /\ UNCHANGED storeVars

\* C16: updateCollection, addCatToCollection and removeCatFromCollection
\* called by an authenticated identity that is not the owner of the
\* collection end with 403 (500 when the lookup of the collection itself
\* fails) and leave the collection row, its cat_count and all
\* collection_cats rows unchanged; such a call never reaches a write.
C16_NotOwnerForbidden ==
    /\ [](\A p \in Procs :
            req[p].pc \in {"cexists", "crpc", "cupdate"} => ~NotOwner(p))
    /\ [][\A p \in Procs : NotOwnerStep(p)]_vars

\* C16 witness: bob was refused (403) on alice's collection while it has
\* cats saved, once for a removeCat and once for an updateCollection
C16_Witness ==
    /\ 1 \in DOMAIN collections
    /\ collections[1].cat_count >= 1
    /\ collections[1].name = "n1"
    /\ \E p, q \in Procs :
          /\ req[p].op = "removeCat" /\ req[p].status = 403
          /\ req[q].op = "updateCollection" /\ req[q].status = 403

\* the delete step of a deleteCollection request of a caller who is not the
\* owner of the existing collection, answered with one of the statuses
DeleteByNotOwner(p, statuses) ==
    (/\ req[p].op = "deleteCollection"
     /\ req[p].pc = "cdelete"
     /\ NotOwner(p)
     /\ req'[p] # req[p])
    => /\ req'[p].pc = "done"
       /\ req'[p].status \in statuses
       /\ UNCHANGED storeVars

\* C17 (as claimed): deleteCollection on an existing collection by an
\* identity that is not its owner fails with a Forbidden error (403), and
\* the collection and its collection_cats rows remain.
C17_DeleteForbidden ==
    [][\A p \in Procs : DeleteByNotOwner(p, {403, 500})]_vars

\* C17 (amended): deleteCollection on an existing collection by an identity
\* that is not its owner fails with 404 "Collection not found or access
\* denied" (500 on a storage failure), and the collection and its
\* collection_cats rows remain.
C17_DeleteDenied ==
    [][\A p \in Procs : DeleteByNotOwner(p, {404, 500})]_vars

\* C17 witness: a deleteCollection on collection 1 was answered 404 and the
\* collection is there with its cats (collection 1 exists throughout until
\* its owner deletes it, so the caller was not the owner)
C17_Witness ==
    /\ 1 \in DOMAIN collections
    /\ MembersOf(collection_cats, 1) # {}
    /\ \E p \in Procs :
          /\ req[p].op = "deleteCollection" /\ req[p].status = 404
          /\ req[p].target = 1

\* C19: in every quiescent state reached by any interleaving of
\* addCatToCollection, removeCatFromCollection and deleteCollection (and
\* updateCollection) calls, each existing collection's cat_count is the
\* number of collection_cats rows that reference it.
C19_CatCountEqualsRows ==
    Quiescent =>
        \A c \in DOMAIN collections :
            collections[c].cat_count =
                Cardinality(MembersOf(collection_cats, c))

\* C19 witness: quiescent after an add and a remove that both changed the
\* rows, with a cat still saved
C19_Witness ==
    /\ Quiescent
    /\ collection_cats # {}
    /\ \E p, q \in Procs :
          /\ req[p].op = "addCat" /\ req[p].status = 200
          /\ req[p].eff = "both"
          /\ req[q].op = "removeCat" /\ req[q].status = 200
          /\ req[q].eff = "both"

\* an add or remove applied to the store as it is, run to completion
MemberOnce(token, c, cat, action) ==
    SeqMember(session_token, cats, collections, collection_cats, token, c,
              cat, action)

\* the same call applied again to what the first one left
MemberTwice(token, c, cat, action) ==
    LET once == MemberOnce(token, c, cat, action)
    IN SeqMember(session_token, cats, once.collections, once.collection_cats,
                 token, c, cat, action)

\* the rpc step of a successful add or remove returns the stored cat_count
ReturnsStoredCount(p) ==
    (/\ req[p].op \in {"addCat", "removeCat"}
     /\ req[p].pc = "crpc"
     /\ req'[p].pc = "done" /\ req'[p].status = 200)
    => /\ req[p].target \in DOMAIN collections'
       /\ req'[p].cnt = collections'[req[p].target].cat_count

\* C20: addCatToCollection (likewise removeCatFromCollection) applied twice
\* by the owner leaves the same collection_cats rows and cat_count as
\* applied once, and every successful call returns the cat_count stored for
\* the collection immediately after that call.
C20_MembershipIdempotent ==
    /\ [](\A token \in Tokens, c \in CollIds, cat \in 0..MaxCats,
             action \in {"addCat", "removeCat"} :
             LET once == MemberOnce(token, c, cat, action)
             IN once.status = 200 =>
                  /\ MemberTwice(token, c, cat, action) = once
                  /\ once.cat_count = once.collections[c].cat_count)
    /\ [][\A p \in Procs : ReturnsStoredCount(p)]_vars

\* C20 witness: an add that found its row present and a remove that found
\* none have both returned 200, the add with the count 2
C20_Witness ==
    \E p, q \in Procs :
        /\ req[p].op = "addCat" /\ req[p].status = 200
        /\ req[p].eff = "none" /\ req[p].cnt = 2
        /\ req[q].op = "removeCat" /\ req[q].status = 200
        /\ req[q].eff = "none"


\* a deleteOwnComment call at its select, naming a comment of another user
NotAuthor(p) ==
    /\ req[p].op = "deleteComment"
    /\ req[p].pc = "mload"
    /\ req[p].target \in DOMAIN comments
    /\ comments[req[p].target].username # req[p].user

\* the caller of request p is the author of comment c: the session token of
\* the call resolved to that username
DeletedByAuthor(p, c) ==
    /\ req[p].op = "deleteComment"
    /\ req[p].pc = "mdelete"
    /\ req[p].target = c
    /\ req[p].user = comments[c].username
    /\ req'[p].pc = "done"

\* C18: a deleteOwnComment call whose caller is not the author of the comment
\* is answered 403 (500 when the select fails) and changes no row; and every
\* step in which a comment leaves the table is the delete of a call whose
\* session resolved to the author of that comment.
C18_OnlyAuthorDeletes ==
    [][/\ \A p \in Procs :
            (NotAuthor(p) /\ req'[p] # req[p]) =>
                /\ req'[p].pc = "done"
                /\ req'[p].status \in {403, 500}
                /\ UNCHANGED storeVars
       /\ \A c \in DOMAIN comments :
            c \notin DOMAIN comments' =>
                \E p \in Procs : DeletedByAuthor(p, c)]_vars

\* bob was refused the deletion of a comment of alice, which is still there,
\* and alice has deleted another comment of hers
C18_Witness ==
    /\ req["r1"].op = "deleteComment"
    /\ req["r1"].status = 403
    /\ req["r1"].target \in DOMAIN comments
    /\ comments[req["r1"].target].username = "alice"
    /\ req["r2"].op = "deleteComment"
    /\ req["r2"].status = 200
    /\ req["r2"].eff = "row"
    /\ req["r2"].target \notin DOMAIN comments
    /\ hist.nComments = 2



\* request p is at the step that looks its target up, and the target is not
\* in the store
MissingTarget(p) ==
    LET r == req[p]
    IN \/ r.op = "follow" /\ r.pc = "lookup"
          /\ r.target \notin DOMAIN session_token
       \/ r.op \in {"like", "unlike"} /\ r.pc = "exists"
          /\ r.target \notin DOMAIN cats
       \/ r.op \in {"addCat", "removeCat", "updateCollection"}
          /\ r.pc = "owner" /\ r.target \notin DOMAIN collections
       \/ r.op \in {"addCat", "removeCat"} /\ r.pc = "cexists"
          /\ r.cat_id \notin DOMAIN cats

\* request p is past its lookups, at a statement that writes
AtWrite(p) ==
    LET r == req[p]
    IN \/ r.op = "follow" /\ r.pc = "rpc"
       \/ r.op \in {"like", "unlike"} /\ r.pc \in {"edge", "count", "persist"}
       \/ r.op \in {"addCat", "removeCat"} /\ r.pc = "crpc"
       \/ r.op = "updateCollection" /\ r.pc = "cupdate"

\* the rows request p names are in the store
TargetsExist(p) ==
    LET r == req[p]
    IN /\ r.op = "follow" => r.target \in DOMAIN session_token
       /\ r.op \in {"like", "unlike"} => r.target \in DOMAIN cats
       /\ r.op \in {"addCat", "removeCat"} =>
             r.target \in DOMAIN collections /\ r.cat_id \in DOMAIN cats
       /\ r.op = "updateCollection" => r.target \in DOMAIN collections

\* C21: a follow, like, unlike, add-cat, remove-cat or update-collection call
\* whose target (user, cat or collection) is missing when the handler looks
\* it up is answered 404 (500 when the lookup itself fails) and changes no
\* row; no such call gets as far as a statement that writes.
C21_MissingTargetNotFound ==
    /\ [](\A p \in Procs : AtWrite(p) => TargetsExist(p))
    /\ [][\A p \in Procs :
            (MissingTarget(p) /\ req'[p] # req[p]) =>
                /\ req'[p].pc = "done"
                /\ req'[p].status \in {404, 500}
                /\ UNCHANGED storeVars]_vars

\* an add-cat call was answered 404 after follows, likes and memberships
\* had been written
C21_Witness ==
    /\ req["r1"].op = "addCat"
    /\ req["r1"].pc = "done"
    /\ req["r1"].status = 404
    /\ follows # {}
    /\ likesTbl # {}
    /\ collection_cats # {}



\* the cats rows owned by x
CatsOf(x) == {c \in DOMAIN cats : cats[c].username = x}

PostCountEqualsCats ==
    \A x \in DOMAIN post_count : post_count[x] = Cardinality(CatsOf(x))

\* whether the creation of request p, which has answered, wrote its row
Created(p) == req[p].eff = "both"

\* C22 as claimed: post_count(X) is the number of cats rows of X, a creation
\* answered 201 has raised it by one, and a creation answered with a failure
\* has raised it by zero.
C22_FailedCreationCountsZero ==
    /\ PostCountEqualsCats
    /\ \A p \in Procs :
          (req[p].op = "createCat" /\ req[p].pc = "done") =>
              (Created(p) <=> req[p].status = 201)

\* C22, amended: post_count(X) is the number of cats rows of X in every
\* state (so also under concurrent creations by X); a creation answered 201
\* has written its row and raised the count by one; a creation that fails
\* before create_cat_with_post_count is applied (401, or 500 from the session
\* lookup, the image upload or the rpc) writes neither; a creation answered
\* 500 after the routine committed has written both.
C22_PostCountEqualsCats ==
    /\ [](/\ PostCountEqualsCats
          /\ \A p \in Procs :
                (req[p].op = "createCat" /\ req[p].pc = "done") =>
                   /\ req[p].status = 201 => Created(p)
                   /\ req[p].status = 401 => ~Created(p)
                   /\ Created(p) =>
                         /\ req[p].cat_id \in DOMAIN cats
                         /\ req[p].status \in {201, 500})
    /\ [][\A x \in DOMAIN post_count :
            /\ x \in DOMAIN post_count'
            /\ post_count'[x] - post_count[x] =
                  Cardinality({p \in Procs :
                     /\ req[p].pc = "catrpc" /\ req[p].user = x
                     /\ req'[p] # req[p] /\ req'[p].eff = "both"})]_vars

\* two creations by alice that overlapped were both answered 201, a third
\* row belongs to her from the start
C22_Witness ==
    /\ \A p \in Procs : /\ req[p].op = "createCat"
                        /\ req[p].status = 201
    /\ post_count["alice"] = 3
    /\ Cardinality(CatsOf("alice")) = 3



\* C23: two rows of users never share an email (usernames are the key), and
\* a registerUser call that meets a username or an email that is already
\* registered, at its availability check or at its insert, is answered 409.
C23_DuplicateRegistrationConflict ==
    /\ \A u, v \in DOMAIN accounts :
          u # v => accounts[u].email # accounts[v].email
    /\ \A p \in Procs :
          (req[p].op = "register" /\ req[p].pc = "done"
             /\ req[p].eff = "taken") => req[p].status = 409



\* the collections of owner x other than c that carry the name n
Namesakes(x, c, n) ==
    {d \in DOMAIN collections \ {c} :
        collections[d].owner_username = x /\ collections[d].name = n}

NamesUnique ==
    \A c \in DOMAIN collections :
       /\ collections[c].name = trim(collections[c].name)
       /\ Namesakes(collections[c].owner_username, c,
                    collections[c].name) = {}

\* request p is at the statement that writes a name its caller already uses
\* for another collection
WouldDuplicate(p) ==
    LET r == req[p]
    IN \/ /\ r.op = "createCollection" /\ r.pc = "collrpc"
          /\ Namesakes(r.user, 0, trim(r.name)) # {}
       \/ /\ r.op = "updateCollection" /\ r.pc = "cupdate"
          /\ TargetCollection(collections, r.target, r.user)
          /\ Namesakes(r.user, r.target, trim(r.name)) # {}

\* C24: no owner has two collections with the same name, names are stored
\* trimmed, and a create or an update that would give its caller a second
\* collection of the same trimmed name is answered 409 (500 when the store
\* call itself fails) and leaves every collection row as it was.
C24_NamesUniquePerOwner ==
    /\ []NamesUnique
    /\ [][\A p \in Procs :
            (WouldDuplicate(p) /\ req'[p] # req[p]) =>
                /\ req'[p].pc = "done"
                /\ req'[p].status \in {409, 500}
                /\ UNCHANGED storeVars]_vars

\* alice holds "n1" and "n9", bob holds "n1" too; a create and a rename of
\* alice that named " n1" and "n9 " were both answered 409
C24_Witness ==
    /\ \A p \in Procs : req[p].pc = "done" /\ req[p].status = 409
    /\ req["r1"].op = "createCollection"
    /\ req["r2"].op = "updateCollection"
    /\ \E c, d, e \in DOMAIN collections :
          /\ collections[c].owner_username = "alice"
          /\ collections[c].name = "n1"
          /\ collections[d].owner_username = "alice"
          /\ collections[d].name = "n9"
          /\ collections[e].owner_username = "bob"
          /\ collections[e].name = "n1"



\* C25: every membership row references a collection that exists, in every
\* state of every interleaving of deletes with adds and removes; so once a
\* deleteCollection has been answered 200 no row references its collection.
C25_MembersReferenceCollections ==
    /\ \A m \in collection_cats : m.collection_id \in DOMAIN collections
    /\ \A p \in Procs :
          (req[p].op = "deleteCollection" /\ req[p].pc = "done"
             /\ req[p].status = 200) =>
                /\ req[p].target \notin DOMAIN collections
                /\ MembersOf(collection_cats, req[p].target) = {}

\* an add that inserted a membership row and the delete of its collection
\* were both answered 200, the add being the second cat of the collection;
\* no membership row is left
C25_Witness ==
    /\ req["r1"].op = "deleteCollection"
    /\ req["r1"].pc = "done" /\ req["r1"].status = 200
    /\ req["r2"].op = "addCat"
    /\ req["r2"].pc = "done" /\ req["r2"].status = 200
    /\ req["r2"].eff = "both" /\ req["r2"].cnt = 2
    /\ collection_cats = {}

\* the number of rows of the walk's listing that match the query of a page
\* asked with the given cursor: the rows that remain at the cursor position
Remaining(w, rawCursor) ==
    CASE w.listing = "cats" ->
           LET cursor == decodeCursor(rawCursor)
           IN Cardinality({r \in CatRows(cats) :
                  /\ w.filter # Null => r.username = w.filter
                  /\ cursor.present => CursorClause(cursor, r)})
      [] w.listing = "collections" ->
           LET cursor == decodeCollectionListCursor(rawCursor)
           IN Cardinality({r \in CollectionRows(collections) :
                  /\ r.owner_username = w.filter
                  /\ cursor.present => CollectionListCursorClause(cursor, r)})
      [] w.listing = "collection_cats" ->
           LET cursor == decodeCollectionCursor(rawCursor)
           IN Cardinality({r \in collection_cats :
                  /\ r.collection_id = w.coll
                  /\ cursor.present => CollectionCursorClause(cursor, r)})
      [] OTHER ->
           Cardinality({e \in follows :
               /\ IF w.listing = "listFollowers" THEN e[2] = w.filter
                                                 ELSE e[1] = w.filter
               /\ rawCursor # NullCursor =>
                     followed_at[e] <
                        parseFollowCursor(rawCursor.created_at).cursor})

\* the number of rows the store returns to a query limited to limit + 1
StoreReturned(w, rawCursor) ==
    IF Remaining(w, rawCursor) > w.limit THEN w.limit + 1
    ELSE Remaining(w, rawCursor)

\* the number of rows of the walk's listing at or after the position of
\* the cursor: every row of the listing when there is no cursor, else the
\* rows whose sort key is not before the cursor's
RemainingAtOrAfter(w, rawCursor) ==
    CASE w.listing = "cats" ->
           Cardinality({r \in CatRows(cats) :
               /\ w.filter # Null => r.username = w.filter
               /\ rawCursor # NullCursor =>
                     ~RowBefore(r, [created_at |-> rawCursor.created_at,
                                    id |-> rawCursor.id])})
      [] w.listing = "collections" ->
           Cardinality({r \in CollectionRows(collections) :
               /\ r.owner_username = w.filter
               /\ rawCursor # NullCursor =>
                     ~RowBefore(r, [created_at |-> rawCursor.created_at,
                                    id |-> rawCursor.id])})
      [] w.listing = "collection_cats" ->
           Cardinality({r \in collection_cats :
               /\ r.collection_id = w.coll
               /\ rawCursor # NullCursor =>
                     ~MemberBefore(r, [added_at |-> rawCursor.created_at,
                                       cat_id |-> rawCursor.id])})
      [] OTHER ->
           Cardinality({e \in follows :
               /\ IF w.listing = "listFollowers" THEN e[2] = w.filter
                                                 ELSE e[1] = w.filter
               /\ rawCursor # NullCursor =>
                     followed_at[e] <= rawCursor.created_at})

\* the shape of the page a step of the walk returned
PageShape ==
    LET w == walk'
        page == w.pages[Len(w.pages)]
    IN /\ Len(page) <= w.limit
       /\ RemainingAtOrAfter(w, walk.cursor) > w.limit =>
             Len(page) = w.limit
       /\ w.cursor # NullCursor <=> StoreReturned(w, walk.cursor) > w.limit

\* C30 (as claimed): every page of every listing (cats, collections, cats
\* of a collection, followers, following) has at most limit items, exactly
\* limit items whenever more than limit rows remain at or after the cursor
\* position, and a non-null next_cursor if and only if the store returned
\* more than limit rows to the page's query.
C30_PageShape ==
    [][walk' # walk => PageShape]_vars

\* the follow edges of user x on the side a listing selects, as rows
OwnEdges(op, x) == FollowRows(follows, followed_at, op, x)

C27_GenericInternalError ==
    \A p \in Procs :
        (req[p].pc = "done" /\ req[p].observe) =>
            /\ req[p].error \notin StorageMessages
            /\ req[p].thrown.kind = "Error" =>
                  /\ req[p].error = "Internal server error"
                  /\ req[p].status = 500
            /\ req[p].thrown.kind = "HttpError" =>
                  /\ req[p].error = req[p].thrown.message
                  /\ req[p].status = req[p].thrown.status
            /\ req[p].status # 200 <=> req[p].error # ""

\* C27 witness: a like failed with an error of the store that is no
\* HttpError and was answered 500
C27_Witness ==
    /\ req["r1"].op = "like"
    /\ req["r1"].pc = "done"
    /\ req["r1"].thrown.kind = "Error"
    /\ req["r1"].thrown.message \in StorageMessages
    /\ req["r1"].status = 500
    /\ req["r1"].error = "Internal server error"

\* the follow, like or membership edge a request is about is in the tables
\* given
EdgePresent(r, followTbl, likeTbl, memberTbl) ==
    CASE r.op \in {"follow", "unfollow"} -> <<r.user, r.target>> \in followTbl
      [] r.op \in {"like", "unlike"} -> <<r.target, r.user>> \in likeTbl
      [] OTHER -> \E m \in memberTbl :
                     m.collection_id = r.target /\ m.cat_id = r.cat_id

\* an edge is absent or present, never there twice
EdgesOnce ==
    \A m, n \in collection_cats :
        (m.collection_id = n.collection_id /\ m.cat_id = n.cat_id) => m = n

\* the response of slot p leaves with this step and is a 200
Succeeds(p) ==
    /\ req[p].pc # "done"
    /\ req'[p].pc = "done"
    /\ req'[p].status = 200

\* C29: a follow, like or membership edge is absent or present; with no
\* other request in flight, when followUser, likeCat or addCat succeeds
\* the edge is present and when unfollowUser, unlikeCat or removeCat
\* succeeds it is absent, and the status or liked value of a follow or
\* like response tells that state.
C29_EdgeStateMachine ==
    /\ []EdgesOnce
    /\ [][\A p \in Procs :
            (/\ Succeeds(p)
             /\ req[p].op \in {"follow", "unfollow", "like", "unlike",
                                "addCat", "removeCat"})
            => LET r == req[p]
                   present == EdgePresent(r, follows', likesTbl',
                                          collection_cats')
               IN /\ present <=> r.op \in {"follow", "like", "addCat"}
                  /\ r.op \in {"follow", "unfollow"} =>
                        (present <=> req'[p].result = "followed")
                  /\ r.op \in {"like", "unlike"} =>
                        (present <=> req'[p].result = "liked")]_vars

\* C29 witness: bob unliked cat 1 with success after he had liked it, and
\* the like is gone
C29_Witness ==
    /\ req["r1"].op = "unlike"
    /\ req["r1"].pc = "done"
    /\ req["r1"].status = 200
    /\ req["r1"].eff = "both"
    /\ req["r1"].result = "not liked"
    /\ likesTbl = {}

\* the edge a call of alice is about is in the state the call asked for
EdgeAsRequested(r) ==
    EdgePresent(r, follows, likesTbl, collection_cats)
        <=> r.op \in {"follow", "like"}

\* the counters the call maintains equal the number of edges
CounterEqualsEdges(r) ==
    IF r.op \in {"follow", "unfollow"}
    THEN /\ follower_count[r.target] =
               Cardinality({e \in follows : e[2] = r.target})
         /\ following_count[r.user] =
               Cardinality({e \in follows : e[1] = r.user})
    ELSE cats[r.target].likes =
            Cardinality({e \in likesTbl : e[1] = r.target})

\* the call of slot r1 was answered 500
RetriedCallFailed ==
    /\ req["r1"].pc = "done"
    /\ req["r1"].status = 500

\* the call of slot r1 was answered 200, its edge is as requested and its
\* counter equals the edge count
RetriedCallConverged ==
    /\ req["r1"].pc = "done"
    /\ req["r1"].status = 200
    /\ EdgeAsRequested(req["r1"])
    /\ CounterEqualsEdges(req["r1"])

\* C28 (as claimed): a follow, unfollow, like or unlike that failed with a
\* storage failure and is sent again until it succeeds, with no other
\* mutation of the same edge in flight, leads to a state where the edge is
\* as requested and the counter equals the edge count.
C28_RetryConverges ==
    RetriedCallFailed ~> RetriedCallConverged

\* the follow edge behind a username a walk over followers or following
\* returned
WalkEdge(u) ==
    IF walk.listing = "listFollowers" THEN <<u, walk.filter>>
                                      ELSE <<walk.filter, u>>

\* the follow edges the walk lists
WalkEdges ==
    {e \in follows : IF walk.listing = "listFollowers"
                     THEN e[2] = walk.filter ELSE e[1] = walk.filter}

\* the followed_at values of the listed edges are pairwise distinct
DistinctFollowedAt ==
    \A e, f \in WalkEdges : followed_at[e] = followed_at[f] => e = f

\* C31 (as claimed): a walk over followers or following never returns an
\* edge twice, on one page or on two, also with ties of followed_at; when
\* the followed_at values are pairwise distinct the rows come in
\* descending followed_at, and the walk that ended returned every edge.
C31_SingleKeyWalk ==
    walk.listing \in ListOps =>
        /\ \A i, j \in 1..Len(WalkFlat) :
              i # j => WalkFlat[i] # WalkFlat[j]
        /\ \A i \in 1..Len(WalkFlat) : WalkEdge(WalkFlat[i]) \in WalkEdges
        /\ DistinctFollowedAt =>
              /\ \A i, j \in 1..Len(WalkFlat) :
                    i < j => followed_at[WalkEdge(WalkFlat[i])] >
                                followed_at[WalkEdge(WalkFlat[j])]
              /\ walk.cursor = NullCursor =>
                    \A e \in WalkEdges :
                        \E i \in 1..Len(WalkFlat) : WalkEdge(WalkFlat[i]) = e

\* the last row of the page the walk was given last
LastRowOfWalk ==
    LET page == walk.pages[Len(walk.pages)]
    IN page[Len(page)]

\* C32 (as claimed): the timestamp the server filters the next page by,
\* parseFollowCursor of the next_cursor it returned, is the followed_at of
\* the last row of the page before, whatever the precision of the stored
\* value.
C32_FollowCursorFidelity ==
    (walk.listing \in ListOps /\ walk.cursor # NullCursor) =>
        /\ parseFollowCursor(walk.cursor.created_at).error = Null
        /\ parseFollowCursor(walk.cursor.created_at).cursor =
              followed_at[WalkEdge(LastRowOfWalk)]

\* C33: for every row, decoding the cursor that encoding the row produced
\* gives exactly the row's two key fields and no error, for the cursors of
\* the cat listings, of the collection list and of a collection's contents.
C33_CursorRoundTrip ==
    (cursorIo.stage = "done" /\ cursorIo.case = "issued") =>
        cursorIo.decoded = [present |-> TRUE, k1 |-> cursorIo.row.k1,
                            k2 |-> cursorIo.row.k2, error |-> Null]

\* the cursor of a collection's contents row whose added_at holds a quote
\* and a three-byte character and whose cat_id is a backslash came back from
\* the decoder
C33_Witness ==
    /\ cursorIo.stage = "done" /\ cursorIo.case = "issued"
    /\ cursorIo.kind = "collection_cats"
    /\ cursorIo.row = [k1 |-> <<34, 8364>>, k2 |-> <<92>>]
    /\ cursorIo.decoded.present
    /\ cursorIo.decoded.k1 = <<34, 8364>>

\* C34: a cursor string that is not empty and is not base64, or not JSON,
\* or not an object with both key fields as strings, is answered 400
\* "Invalid cursor" and the store is not queried; an empty cursor is taken
\* as the first page: the store is queried without a cursor clause.
C34_InvalidCursorRejected ==
    cursorIo.stage = "done" =>
        /\ cursorIo.case \in {"notBase64", "notJson", "notObject",
                              "missingField", "nonStringField"} =>
              /\ cursorIo.status = 400
              /\ cursorIo.error = "Invalid cursor"
              /\ ~cursorIo.queried
        /\ cursorIo.case = "empty" =>
              /\ cursorIo.status # 400
              /\ cursorIo.queried /\ ~cursorIo.clause

\* a cursor whose second key field is a number was refused
C34_Witness ==
    /\ cursorIo.stage = "done" /\ cursorIo.case = "nonStringField"
    /\ cursorIo.status = 400 /\ ~cursorIo.queried

\* C35: from a state where likes is the number of like rows, after every
\* sequence of likeCat and unlikeCat calls run one after the other the like
\* rows, the stored likes of every cat and the status and count returned
\* by the last call are the same under CatLikeService's recount-then-write
\* as under like_cat_with_count / unlike_cat_with_count.
C35_CounterStrategiesAgree ==
    /\ atomicRun.likesTbl = likesTbl
    /\ DOMAIN atomicRun.likes = DOMAIN cats
    /\ \A c \in DOMAIN cats : atomicRun.likes[c] = cats[c].likes
    /\ atomicRun.status = atomicRun.servedStatus
    /\ atomicRun.returned = atomicRun.servedLikes

\* a like of a cat the caller liked already, which another user likes too:
\* the routine inserted nothing and both ways returned 2
C35_Witness ==
    /\ atomicRun.action = "like" /\ atomicRun.status = 200
    /\ atomicRun.delta = 0
    /\ atomicRun.returned = 2 /\ atomicRun.servedLikes = 2

\* the tables the mutations write
EdgeTables ==
    <<follows, follower_count, following_count, likesTbl, cats,
      collections, collection_cats>>

\* the step is a write of the mutation in slot p
WriteBy(p) ==
    /\ req[p].op \in {"follow", "unfollow", "like", "unlike", "addCat",
                      "removeCat"}
    /\ req'[p] # req[p]
    /\ EdgeTables' # EdgeTables

\* C36 (as claimed): a mutation writes only while the token it was called
\* with is the current token of its identity: after a login has rotated the
\* token, no write authenticated by the previous token is applied.
C36_WriteUnderCurrentToken ==
    [][\A p \in Procs :
          WriteBy(p) => session_token[req[p].user] = req[p].token]_vars

\* C36 (amended): a mutation writes only after its session lookup, and the
\* lookup lets it pass only if the token it was called with is the current
\* token of an identity at that moment: a call whose lookup runs after the
\* login has rotated the token is answered 401 and writes nothing.
C36_WriteAfterCurrentLookup ==
    [][\A p \in Procs :
          /\ (req[p].pc = "auth" /\ req'[p].pc \notin {"auth", "done"}) =>
                session_token[req'[p].user] = req[p].token
          /\ (req[p].pc = "auth" /\ req'[p] # req[p]
                 /\ \A u \in DOMAIN session_token :
                       session_token[u] # req[p].token) =>
                (req'[p].pc = "done" /\ req'[p].status = 401)
          /\ WriteBy(p) => (req[p].pc # "auth" /\ req[p].user # Null)]_vars

\* alice's login has rotated her token and answered, and an unfollow called
\* with a token has removed her edge to bob
C36_Witness ==
    /\ req["r2"].op = "login" /\ req["r2"].pc = "done"
    /\ req["r2"].status = 200
    /\ session_token["alice"] = generateSessionToken(1)
    /\ req["r1"].op = "unfollow" /\ req["r1"].pc = "done"
    /\ req["r1"].status = 200
    /\ follows = {}

\* C37 (as claimed): after any outcome of changeAvatar, a failure of the
\* final update of the user row included, the r2_avatar key stored for a
\* user is null or names an object that is in the bucket.
C37_NoDanglingAvatar ==
    Quiescent =>
        \A u \in Users :
            \/ avatarSt.r2_avatar[u] = 0
            \/ avatarSt.r2_avatar[u] \in avatarSt.bucket

\* the comments of the cat whose comments the walk lists
WalkComments == {c \in DOMAIN comments : comments[c].cat_id = walk.coll}

\* C38: for a fixed set of comments of a cat and any limit, the walk from
\* page 1 along next_page returns comments of the cat, none twice, in
\* descending (comment_at, comment_id); next_page is not null exactly when
\* comments remain, and the walk that ended returned every comment.
C38_CommentPagesWalk ==
    walk.listing = "comments" =>
        /\ \A i \in 1..Len(WalkFlat) : WalkFlat[i] \in WalkComments
        /\ \A i, j \in 1..Len(WalkFlat) :
              i < j =>
                 \/ comments[WalkFlat[i]].comment_at >
                       comments[WalkFlat[j]].comment_at
                 \/ /\ comments[WalkFlat[i]].comment_at =
                          comments[WalkFlat[j]].comment_at
                    /\ WalkFlat[i] > WalkFlat[j]
        /\ (walk.cursor # NullCursor) <=>
              (Len(WalkFlat) < Cardinality(WalkComments))
        /\ walk.cursor = NullCursor =>
              \A c \in WalkComments :
                  \E i \in 1..Len(WalkFlat) : WalkFlat[i] = c

\* a walk with limit 2 ended after two full pages: four comments of the
\* cat, two of them at the same time
C38_Witness ==
    /\ walk.listing = "comments" /\ walk.cursor = NullCursor
    /\ walk.limit = 2 /\ Len(walk.pages) = 2 /\ Len(WalkFlat) = 4
    /\ \E c, d \in WalkComments :
          c # d /\ comments[c].comment_at = comments[d].comment_at
====
